---- MODULE Spec2Model ----
(***************************************************************************)
(* Model of the trading core of CompleteBotV: MemStorage (portfolios,      *)
(* trades, market data, activities), RiskManager.validateTrade, BrokerAPI  *)
(* (venue selection, execution, health probe) and TradingEngine            *)
(* (executeTrade, closeTrade, updatePortfolioAfterTrade).                  *)
(*                                                                         *)
(* Every async method is cut at its awaits: one action is the code that    *)
(* runs between two awaits of one call, and calls in flight interleave at  *)
(* those points.  A storage method reads or writes the maps in the         *)
(* synchronous part of its body, i.e. at the moment it is called.          *)
(*                                                                         *)
(* Numbers are exact extended rationals <<n, d>> (d > 0, lowest terms),    *)
(* with <<1,0>> = Infinity, <<-1,0>> = -Infinity and <<0,0>> = NaN, so the *)
(* comparisons and the arithmetic behave as JavaScript's do on NaN and on  *)
(* division by zero; rounding of doubles is not modelled.  The decimal     *)
(* strings of the schema are modelled by the number they spell, plus NULL  *)
(* (null / undefined) and BAD (a text that is not a number).               *)
(***************************************************************************)
EXTENDS Integers, Sequences, FiniteSets, TLC

\* ------------------------------------------------------------------ numbers

NaN == <<0, 0>>
PosInf == <<1, 0>>
NegInf == <<-1, 0>>
NULL == <<0, -1>>
BAD == <<0, -2>>

AbsInt(i) == IF i < 0 THEN -i ELSE i
SignInt(i) == IF i > 0 THEN 1 ELSE IF i < 0 THEN -1 ELSE 0

RECURSIVE GCD(_, _)
GCD(a, b) == IF b = 0 THEN a ELSE GCD(b, a % b)

\* <<n, d>> in canonical form: d >= 0, lowest terms, d = 0 for Infinity/NaN.
Norm(n, d) ==
  IF d = 0 THEN <<SignInt(n), 0>>
  ELSE LET s == IF d < 0 THEN -1 ELSE 1
           g == GCD(AbsInt(n), AbsInt(d))
       IN  <<(s * n) \div g, (s * d) \div g>>

N(i) == <<i, 1>>
IsNaN(x) == x = NaN
IsFinite(x) == x[2] > 0

NumAdd(x, y) ==
  IF x[2] = 0 /\ y[2] = 0
  THEN (IF x[1] = y[1] THEN x ELSE NaN)
  ELSE Norm(x[1] * y[2] + y[1] * x[2], x[2] * y[2])
NumNeg(x) == <<-x[1], x[2]>>
NumSub(x, y) == NumAdd(x, NumNeg(y))
NumMul(x, y) == Norm(x[1] * y[1], x[2] * y[2])
NumDiv(x, y) ==
  IF x[2] = 0 /\ y[2] = 0 THEN NaN
  ELSE IF y[2] = 0 THEN (IF IsNaN(y) THEN NaN ELSE N(0))
  ELSE IF x[2] = 0 THEN (IF IsNaN(x) THEN NaN ELSE <<x[1] * (IF y[1] < 0 THEN -1 ELSE 1), 0>>)
  ELSE Norm(x[1] * y[2], x[2] * y[1])
NumAbs(x) == <<AbsInt(x[1]), x[2]>>

\* x > y, false when either side is NaN
NumGt(x, y) ==
  /\ ~IsNaN(x)
  /\ ~IsNaN(y)
  /\ IF x[2] = 0 /\ y[2] = 0 THEN x[1] > y[1]
     ELSE IF x[2] = 0 THEN x[1] > 0
     ELSE IF y[2] = 0 THEN y[1] < 0
     ELSE x[1] * y[2] > y[1] * x[2]
NumLt(x, y) == NumGt(y, x)
NumGe(x, y) == ~IsNaN(x) /\ ~IsNaN(y) /\ ~NumGt(y, x)
NumLe(x, y) == NumGe(y, x)
\* Math.max(a, b): NaN if either is NaN
NumMax(x, y) == IF IsNaN(x) \/ IsNaN(y) THEN NaN ELSE IF NumGt(y, x) THEN y ELSE x

\* Math.min(a, b): NaN if either is NaN
NumMin(x, y) == IF IsNaN(x) \/ IsNaN(y) THEN NaN ELSE IF NumLt(y, x) THEN y ELSE x

\* the value a number-typed property has in arithmetic and comparisons:
\* undefined (NULL) converts to NaN
ToNumber(v) == IF v = NULL THEN NaN ELSE v

RECURSIVE Pow10(_)
Pow10(k) == IF k = 0 THEN 1 ELSE 10 * Pow10(k - 1)

\* Number.prototype.toFixed(digits): the decimal with that many fraction
\* digits nearest to x, the one larger in magnitude on a tie; "NaN" and
\* "Infinity" for the non-finite
toFixed(x, digits) ==
  IF ~IsFinite(x) THEN x
  ELSE LET scale == Pow10(digits)
           whole == AbsInt(x[1]) \div x[2]
           rest == AbsInt(x[1]) % x[2]
           g == GCD(scale, x[2])
           fraction == (2 * rest * (scale \div g) + (x[2] \div g)) \div (2 * (x[2] \div g))
       IN  Norm(SignInt(x[1]) * (whole * scale + fraction), scale)

\* parseFloat of a decimal string; null, undefined and non-numeric text give NaN
parseFloat(t) == IF t = NULL \/ t = BAD THEN NaN ELSE t
\* Number.prototype.toString: the text spelling the number ("NaN" for NaN)
toString(x) == x
\* JavaScript truthiness of a nullable string field (a non-empty string is truthy)
Truthy(t) == t # NULL

\* ------------------------------------------------------------------ symbols

\* An instrument symbol is the sequence of its tokens; String.includes(sub)
\* is membership of the token.
EURUSD == <<"EUR", "/", "USD">>
GBPUSD == <<"GBP", "/", "USD">>
GBPJPY == <<"GBP", "/", "JPY">>
BTCUSD == <<"BTC", "/", "USD">>
AAPL == <<"AAPL">>
Symbols == {EURUSD, GBPUSD, GBPJPY, BTCUSD, AAPL}
includes(symbol, sub) == \E i \in 1..Len(symbol) : symbol[i] = sub

Venues == {"capital_com", "binance", "metatrader"}

\* ------------------------------------------------------------ RiskManager

maxRiskPerTrade == 2
maxTotalRisk == 10
maxDrawdown == 15
maxPositionSize == 5
maxDailyLoss == 5

RiskCheck(a, r, s) == [allowed |-> a, reason |-> r, riskScore |-> s]

\* checkPositionSize rejecting at the limit itself
checkPositionSize_Inclusive(tradeData, portfolio) ==
  LET totalValue == parseFloat(portfolio.totalValue)
      tradeValue == NumMul(parseFloat(tradeData.entryPrice), parseFloat(tradeData.quantity))
      positionSizePercent == NumMul(NumDiv(tradeValue, totalValue), N(100))
  IN  IF NumGe(positionSizePercent, N(maxPositionSize))
      THEN RiskCheck(FALSE, "Position size exceeds maximum allowed", NumMul(positionSizePercent, N(2)))
      ELSE RiskCheck(TRUE, "Position size acceptable", positionSizePercent)

checkPositionSize(tradeData, portfolio) ==
  LET totalValue == parseFloat(portfolio.totalValue)
      tradeValue == NumMul(parseFloat(tradeData.entryPrice), parseFloat(tradeData.quantity))
      positionSizePercent == NumMul(NumDiv(tradeValue, totalValue), N(100))
  IN  IF NumGt(positionSizePercent, N(maxPositionSize))
      THEN RiskCheck(FALSE, "Position size exceeds maximum allowed", NumMul(positionSizePercent, N(2)))
      ELSE RiskCheck(TRUE, "Position size acceptable", positionSizePercent)

\* calculateTradeRisk without the default for a missing or zero stop
calculateTradeRisk_NoDefault(trade) ==
  LET entryPrice == parseFloat(trade.entryPrice)
      stopLoss == parseFloat(IF Truthy(trade.stopLoss) THEN trade.stopLoss ELSE N(0))
  IN  IF trade.type = "BUY"
      THEN NumAbs(NumMul(NumDiv(NumSub(entryPrice, stopLoss), entryPrice), N(100)))
      ELSE NumAbs(NumMul(NumDiv(NumSub(stopLoss, entryPrice), entryPrice), N(100)))

calculateTradeRisk(trade) ==
  LET entryPrice == parseFloat(trade.entryPrice)
      stopLoss == parseFloat(IF Truthy(trade.stopLoss) THEN trade.stopLoss ELSE N(0))
  IN  IF stopLoss = N(0) THEN N(maxRiskPerTrade)
      ELSE IF trade.type = "BUY"
           THEN NumAbs(NumMul(NumDiv(NumSub(entryPrice, stopLoss), entryPrice), N(100)))
           ELSE NumAbs(NumMul(NumDiv(NumSub(stopLoss, entryPrice), entryPrice), N(100)))

\* the forEach accumulation over the active trades, in array order
RECURSIVE SumRisk(_)
SumRisk(activeTrades) ==
  IF activeTrades = <<>> THEN N(0)
  ELSE LET n == Len(activeTrades)
           trade == activeTrades[n]
           tradeValue == NumMul(parseFloat(trade.entryPrice), parseFloat(trade.quantity))
           riskPercent == calculateTradeRisk(trade)
       IN  NumAdd(SumRisk(SubSeq(activeTrades, 1, n - 1)),
                  NumDiv(NumMul(tradeValue, riskPercent), N(100)))

checkTotalRiskExposure(activeTrades, portfolio) ==
  LET totalValue == parseFloat(portfolio.totalValue)
      totalRiskExposure == SumRisk(activeTrades)
      riskExposurePercent == NumMul(NumDiv(totalRiskExposure, totalValue), N(100))
  IN  IF NumGt(riskExposurePercent, N(maxTotalRisk))
      THEN RiskCheck(FALSE, "Total risk exposure exceeds maximum allowed", NumMul(riskExposurePercent, N(2)))
      ELSE RiskCheck(TRUE, "Total risk exposure acceptable", riskExposurePercent)

checkDailyLoss(portfolio) ==
  LET totalValue == parseFloat(portfolio.totalValue)
      dailyPnL == parseFloat(portfolio.dailyPnL)
      dailyLossPercent == NumMul(NumAbs(NumDiv(dailyPnL, totalValue)), N(100))
  IN  IF NumLt(dailyPnL, N(0)) /\ NumGt(dailyLossPercent, N(maxDailyLoss))
      THEN RiskCheck(FALSE, "Daily loss exceeds maximum allowed", NumMul(dailyLossPercent, N(3)))
      ELSE RiskCheck(TRUE, "Daily loss within limits", dailyLossPercent)

\* checkDrawdown rejecting at the limit itself
checkDrawdown_Inclusive(portfolio) ==
  LET totalValue == parseFloat(portfolio.totalValue)
      totalPnL == parseFloat(portfolio.totalPnL)
      peakValue == NumAdd(NumSub(totalValue, totalPnL), NumMax(N(0), totalPnL))
      drawdownPercent == NumMul(NumDiv(NumSub(peakValue, totalValue), peakValue), N(100))
  IN  IF NumGe(drawdownPercent, N(maxDrawdown))
      THEN RiskCheck(FALSE, "Current drawdown exceeds maximum allowed", NumMul(drawdownPercent, N(2)))
      ELSE RiskCheck(TRUE, "Drawdown within limits", drawdownPercent)

checkDrawdown(portfolio) ==
  LET totalValue == parseFloat(portfolio.totalValue)
      totalPnL == parseFloat(portfolio.totalPnL)
      peakValue == NumAdd(NumSub(totalValue, totalPnL), NumMax(N(0), totalPnL))
      drawdownPercent == NumMul(NumDiv(NumSub(peakValue, totalValue), peakValue), N(100))
  IN  IF NumGt(drawdownPercent, N(maxDrawdown))
      THEN RiskCheck(FALSE, "Current drawdown exceeds maximum allowed", NumMul(drawdownPercent, N(2)))
      ELSE RiskCheck(TRUE, "Drawdown within limits", drawdownPercent)

getAssetCategory(symbol) ==
  IF includes(symbol, "BTC") \/ includes(symbol, "ETH") \/ includes(symbol, "USDT") THEN "CRYPTO"
  ELSE IF includes(symbol, "/") THEN "FOREX"
  ELSE "STOCKS"

\* checkCorrelation allowing a fourth position on the symbol
checkCorrelation_Lenient(tradeData, activeTrades) ==
  LET sameSymbol == Cardinality({i \in 1..Len(activeTrades) : activeTrades[i].symbol = tradeData.symbol})
      sameCategory == Cardinality({i \in 1..Len(activeTrades) :
                        getAssetCategory(activeTrades[i].symbol) = getAssetCategory(tradeData.symbol)})
  IN  IF sameSymbol > 3
      THEN RiskCheck(FALSE, "Too many open positions in symbol", N(sameSymbol * 20))
      ELSE IF sameCategory >= 5
      THEN RiskCheck(FALSE, "Too many open positions in category", N(sameCategory * 15))
      ELSE RiskCheck(TRUE, "Correlation acceptable", N(sameCategory * 5))

checkCorrelation(tradeData, activeTrades) ==
  LET sameSymbol == Cardinality({i \in 1..Len(activeTrades) : activeTrades[i].symbol = tradeData.symbol})
      sameCategory == Cardinality({i \in 1..Len(activeTrades) :
                        getAssetCategory(activeTrades[i].symbol) = getAssetCategory(tradeData.symbol)})
  IN  IF sameSymbol >= 3
      THEN RiskCheck(FALSE, "Too many open positions in symbol", N(sameSymbol * 20))
      ELSE IF sameCategory >= 5
      THEN RiskCheck(FALSE, "Too many open positions in category", N(sameCategory * 15))
      ELSE RiskCheck(TRUE, "Correlation acceptable", N(sameCategory * 5))

\* calculateRiskScore blending the drawdown check's score in place of the
\* concentration check's
calculateRiskScore_Drawdown(tradeData, portfolio, activeTrades) ==
  LET positionRisk == checkPositionSize(tradeData, portfolio).riskScore
      exposureRisk == checkTotalRiskExposure(activeTrades, portfolio).riskScore
      dailyRisk == checkDailyLoss(portfolio).riskScore
      drawdownRisk == checkDrawdown(portfolio).riskScore
  IN  NumAdd(NumAdd(NumAdd(NumMul(positionRisk, <<3, 10>>), NumMul(exposureRisk, <<3, 10>>)),
                    NumMul(dailyRisk, <<1, 5>>)),
             NumMul(drawdownRisk, <<1, 5>>))

calculateRiskScore(tradeData, portfolio, activeTrades) ==
  LET positionRisk == checkPositionSize(tradeData, portfolio).riskScore
      exposureRisk == checkTotalRiskExposure(activeTrades, portfolio).riskScore
      dailyRisk == checkDailyLoss(portfolio).riskScore
      correlationRisk == checkCorrelation(tradeData, activeTrades).riskScore
  IN  NumAdd(NumAdd(NumAdd(NumMul(positionRisk, <<3, 10>>), NumMul(exposureRisk, <<3, 10>>)),
                    NumMul(dailyRisk, <<1, 5>>)),
             NumMul(correlationRisk, <<1, 5>>))

\* RunChecks returning the last failed check
RunChecks_LastFailed(tradeData, portfolio, activeTrades) ==
  LET checks == << checkPositionSize(tradeData, portfolio),
                   checkTotalRiskExposure(activeTrades, portfolio),
                   checkDailyLoss(portfolio),
                   checkDrawdown(portfolio),
                   checkCorrelation(tradeData, activeTrades) >>
      failed == {i \in 1..5 : ~checks[i].allowed}
  IN  IF failed # {}
      THEN checks[CHOOSE i \in failed : \A j \in failed : i >= j]
      ELSE RiskCheck(TRUE, "Trade approved", calculateRiskScore(tradeData, portfolio, activeTrades))

\* The checks of validateTrade once the portfolio and the active trades have
\* been read: the first failed check in array order, else the approval.
RunChecks(tradeData, portfolio, activeTrades) ==
  LET checks == << checkPositionSize(tradeData, portfolio),
                   checkTotalRiskExposure(activeTrades, portfolio),
                   checkDailyLoss(portfolio),
                   checkDrawdown(portfolio),
                   checkCorrelation(tradeData, activeTrades) >>
      failed == {i \in 1..5 : ~checks[i].allowed}
  IN  IF failed # {}
      THEN checks[CHOOSE i \in failed : \A j \in failed : i <= j]
      ELSE RiskCheck(TRUE, "Trade approved", calculateRiskScore(tradeData, portfolio, activeTrades))

PortfolioNotFound == RiskCheck(FALSE, "Portfolio not found", N(100))


\* ------------------------------------------------------------------ bounds

\* calls of TradingEngine.executeTrade / closeTrade that may be in flight together
CallIds == {1, 2}
\* the slot of the closeTrade call made by the monitor (checkTradeExitConditions)
MonitorCall == 0
\* the slot of the run of RiskManager.monitorPortfolioRisk
RiskMonitorCall == 3
Slots == CallIds \cup {MonitorCall, RiskMonitorCall}
\* storage.createMarketData calls issued by the market feed
MaxTicks == 1
\* runs of the connection monitor (BrokerAPI.updateConnectionStatus)
MaxProbes == 1

Users == {1, 2}
\* prices a market feed may publish
FeedPrices == {N(95), N(105)}
\* symbols a market feed publishes
FeedSymbols == {GBPJPY}
\* the slippage drawn by BrokerAPI.executeTrade, in price points
Slippage == {N(-1), N(1)}

\* ------------------------------------------------------------------- state

VARIABLES isInitialized, connections, portfolios, trades, currentTradeId,
          marketData, activities, calls, ticks, probes,
          sweep, indicators, aiSignals, signalCall

vars == <<isInitialized, connections, portfolios, trades, currentTradeId,
          marketData, activities, calls, ticks, probes,
          sweep, indicators, aiSignals, signalCall>>

Portfolio(id, userId, totalValue, availableBalance, dailyPnL, totalPnL, riskExposure) ==
  [id |-> id, userId |-> userId, totalValue |-> totalValue,
   availableBalance |-> availableBalance, dailyPnL |-> dailyPnL,
   totalPnL |-> totalPnL, riskExposure |-> riskExposure]
NoPortfolio == Portfolio(0, 0, NULL, NULL, NULL, NULL, NULL)

InsertTrade(userId, symbol, type, status, entryPrice, quantity, stopLoss, takeProfit, pnl) ==
  [userId |-> userId, symbol |-> symbol, type |-> type, status |-> status,
   entryPrice |-> entryPrice, currentPrice |-> NULL, quantity |-> quantity,
   stopLoss |-> stopLoss, takeProfit |-> takeProfit, pnl |-> pnl]
NoTradeData == InsertTrade(0, <<>>, "", "", NULL, NULL, NULL, NULL, NULL)

Trade(id, userId, symbol, type, status, entryPrice, currentPrice, quantity, stopLoss, takeProfit, pnl, closed) ==
  [id |-> id, userId |-> userId, symbol |-> symbol, type |-> type, status |-> status,
   entryPrice |-> entryPrice, currentPrice |-> currentPrice, quantity |-> quantity,
   stopLoss |-> stopLoss, takeProfit |-> takeProfit, pnl |-> pnl, closed |-> closed]
NoTrade == Trade(0, 0, <<>>, "", "", NULL, NULL, NULL, NULL, NULL, NULL, FALSE)

Activity(userId, type, symbol, severity) ==
  [userId |-> userId, type |-> type, symbol |-> symbol, severity |-> severity]

\* The fixed phrases of the title and the description an activity of each type
\* is created with; the rest of the two texts are the symbol, the side and
\* numbers, and the metadata are symbol, side, prices, quantity and P&L.
ActivityText(activity) ==
  IF activity.type = "TRADE_EXECUTED" THEN {"Trade Executed", "Entry at", "Size", "AI Confidence"}
  ELSE IF activity.type = "TRADE_CLOSED" THEN {"Trade Closed", "Closed at", "P&L"}
  ELSE IF activity.type = "RISK_ALERT" THEN {"Risk Alert"}
  ELSE IF activity.type = "AI_SIGNAL_GENERATED" THEN {"AI Signal Generated", "Confidence", "Model"}
  ELSE IF activity.type = "MODEL_UPDATE" THEN {"Model Retrained", "Accuracy"}
  ELSE {}

NoCheck == RiskCheck(FALSE, "", NaN)
NoUpdates == [totalValue |-> NULL, dailyPnL |-> NULL, totalPnL |-> NULL]

\* One call of executeTrade or closeTrade: its arguments, its position (pc is
\* the block that runs next), its local variables (broker is the venue
\* BrokerAPI.executeTrade selected, named in its order id and in its error;
\* executedQuantity the quantity of its ExecutionResult; riskExposure the
\* totalRiskExposure of monitorPortfolioRisk), its outcome, and counters of
\* the effects the call itself has had.
IdleCall ==
  [kind |-> "idle", pc |-> "idle", tradeData |-> NoTradeData, tradeId |-> 0, userId |-> 0,
   riskCheck |-> NoCheck, executedPrice |-> NaN, trade |-> NoTrade,
   closePrice |-> NaN, pnl |-> NaN, portfolio |-> NoPortfolio, updates |-> NoUpdates,
   result |-> "", error |-> "",
   broker |-> "", executedQuantity |-> NaN, riskExposure |-> NaN,
   nExecute |-> 0, nVenueClose |-> 0, nTradeWrites |-> 0, nAudit |-> 0, nPortfolioWrites |-> 0]

\* One run of TradingEngine.updateOpenTrades: pc is the block that runs
\* next, openTrades the snapshot it iterates, i the index of the trade in
\* hand, currentPrice the price read for it, n the number of runs started.
IdleSweep ==
  [pc |-> "idle", openTrades |-> <<>>, i |-> 0, currentPrice |-> NaN,
   reason |-> "", error |-> "", n |-> 0]

\* the indicators column of a market data row: an object whose absent
\* properties read as undefined (NULL), or null
Indicators(rsi, atr, support, resistance, sma20, ema12, ema26, macd, bollinger_upper, bollinger_lower) ==
  [object |-> TRUE, rsi |-> rsi, atr |-> atr, support |-> support, resistance |-> resistance,
   sma20 |-> sma20, ema12 |-> ema12, ema26 |-> ema26, macd |-> macd,
   bollinger_upper |-> bollinger_upper, bollinger_lower |-> bollinger_lower]
NullIndicators ==
  [Indicators(NULL, NULL, NULL, NULL, NULL, NULL, NULL, NULL, NULL, NULL) EXCEPT !.object = FALSE]

\* indicator objects a market feed publishes: all eleven indicators present
fullIndicators == Indicators(N(50), N(1), N(95), N(105), N(100), N(100), N(100), N(0), N(110), N(90))
FeedIndicators == {fullIndicators}

\* InsertAiSignal; expiresAt is the Date object of the sub-strategy named
Signal(symbol, signal, confidence, model, entryPrice, stopLoss, takeProfit, expiresAt) ==
  [symbol |-> symbol, signal |-> signal, confidence |-> confidence, model |-> model,
   entryPrice |-> entryPrice, stopLoss |-> stopLoss, takeProfit |-> takeProfit,
   expiresAt |-> expiresAt]
NoSignal == Signal(<<>>, "", NULL, "", NULL, NULL, NULL, "")

\* One call of AIModels.generateSignal, or one application of combineSignals
IdleSignalCall ==
  [pc |-> "idle", symbol |-> <<>>, price |-> NULL, indicators |-> NullIndicators,
   signals |-> <<>>, combined |-> NoSignal, result |-> "", error |-> "",
   nStored |-> 0, nAudit |-> 0, n |-> 0]

\* MemStorage.initializeDemoData, with the magnitudes of the demo prices and
\* quantities in whole units: one portfolio for user 1, an OPEN BUY on EUR/USD
\* (stop < entry < target), an OPEN SELL on GBP/JPY (target < entry < stop),
\* market data for four symbols and none for GBP/JPY.
demoPortfolio == Portfolio(1, 1, N(100000), N(25000), N(1450), N(12850), <<5, 2>>)
demoTrades ==
  << Trade(1, 1, EURUSD, "BUY", "OPEN", N(100), N(102), N(10), N(90), N(110), N(20), FALSE),
     Trade(2, 1, GBPJPY, "SELL", "OPEN", N(180), N(181), N(5), N(190), N(170), N(-5), FALSE) >>
demoMarketData ==
  [s \in Symbols |-> IF s = EURUSD THEN N(102)
                     ELSE IF s = BTCUSD THEN N(400)
                     ELSE IF s = GBPJPY THEN NULL
                     ELSE N(185)]
\* every demo market data row carries the same four indicators
demoIndicators ==
  [s \in Symbols |-> IF s = GBPJPY THEN NullIndicators
                     ELSE Indicators(<<327, 5>>, <<1, 2>>, <<203, 2>>, N(103), NULL, NULL, NULL, NULL, NULL, NULL)]
demoSignals ==
  << Signal(EURUSD, "BUY", N(92), "LSTM", N(100), N(90), N(110), "demo"),
     Signal(BTCUSD, "SELL", N(78), "CNN", N(400), N(420), N(380), "demo") >>
demoActivities ==
  << Activity(1, "TRADE_EXECUTED", EURUSD, "SUCCESS"),
     Activity(1, "RISK_ALERT", <<>>, "WARNING"),
     Activity(0, "MODEL_UPDATE", EURUSD, "INFO") >>

Init ==
  /\ isInitialized = FALSE
  /\ connections = [v \in {} |-> TRUE]
  /\ portfolios = <<demoPortfolio>>
  /\ trades = demoTrades
  /\ currentTradeId = 3
  /\ marketData = demoMarketData
  /\ activities = demoActivities
  /\ calls = [c \in Slots |-> IdleCall]
  /\ ticks = 0
  /\ probes = 0
  /\ sweep = IdleSweep
  /\ indicators = demoIndicators
  /\ aiSignals = demoSignals
  /\ signalCall = IdleSignalCall

\* --------------------------------------------------------------- MemStorage

\* Array.from(values()).find(p => p.userId === userId)
getPortfolio(userId) ==
  LET ids == {i \in 1..Len(portfolios) : portfolios[i].userId = userId}
  IN  IF ids = {} THEN NoPortfolio
      ELSE portfolios[CHOOSE i \in ids : \A j \in ids : i <= j]

getTrades(userId) == SelectSeq(trades, LAMBDA t : t.userId = userId)
getActiveTrades(userId) == SelectSeq(trades, LAMBDA t : t.userId = userId /\ t.status = "OPEN")
getMarketData(symbol) == IF symbol \in DOMAIN marketData THEN marketData[symbol] ELSE NULL

\* FindOpenTrade without the status test
FindOpenTrade_AnyStatus(tradeId, userId) ==
  LET ts == getTrades(userId)
      hits == {i \in 1..Len(ts) : ts[i].id = tradeId}
  IN  IF hits = {} THEN NoTrade ELSE ts[CHOOSE i \in hits : \A j \in hits : i <= j]

\* trades.find(t => t.id === tradeId && t.status === 'OPEN') over getTrades(userId)
FindOpenTrade(tradeId, userId) ==
  LET ts == getTrades(userId)
      hits == {i \in 1..Len(ts) : ts[i].id = tradeId /\ ts[i].status = "OPEN"}
  IN  IF hits = {} THEN NoTrade ELSE ts[CHOOSE i \in hits : \A j \in hits : i <= j]

\* the record createTrade stores: {...insertTrade, id, openedAt, closedAt: null}
NewTrade(insertTrade, id) ==
  Trade(id, insertTrade.userId, insertTrade.symbol, insertTrade.type, insertTrade.status,
        insertTrade.entryPrice, insertTrade.currentPrice, insertTrade.quantity,
        insertTrade.stopLoss, insertTrade.takeProfit, insertTrade.pnl, FALSE)

\* the record storage.closeTrade stores over an existing trade
ClosedTrade(trade, closePrice, pnl) ==
  [trade EXCEPT !.status = "CLOSED", !.currentPrice = closePrice, !.pnl = pnl, !.closed = TRUE]

\* {...portfolio, ...updates} of updatePortfolio for the three fields the engine writes
MergePortfolio(portfolio, updates) ==
  [portfolio EXCEPT !.totalValue = updates.totalValue,
                    !.dailyPnL = updates.dailyPnL,
                    !.totalPnL = updates.totalPnL]

\* ---------------------------------------------------------------- BrokerAPI

\* selectBroker testing the slash before the crypto tokens
selectBroker_SlashFirst(symbol) ==
  IF includes(symbol, "/") THEN "capital_com"
  ELSE IF includes(symbol, "BTC") \/ includes(symbol, "ETH") \/ includes(symbol, "USDT") THEN "binance"
  ELSE "metatrader"

selectBroker(symbol) ==
  IF includes(symbol, "BTC") \/ includes(symbol, "ETH") \/ includes(symbol, "USDT") THEN "binance"
  ELSE IF includes(symbol, "/") THEN "capital_com"
  ELSE "metatrader"


\* ------------------------------------------------------------ the inputs

\* Proposed trades (InsertTrade as insertTradeSchema admits it: the decimal
\* columns are strings, status and pnl are optional).
baseTrade == InsertTrade(1, EURUSD, "BUY", "OPEN", N(100), N(10), N(90), N(110), NULL)
TradeInputs ==
  { baseTrade,
    [baseTrade EXCEPT !.quantity = N(60)],
    [baseTrade EXCEPT !.entryPrice = BAD],
    [baseTrade EXCEPT !.stopLoss = N(110), !.takeProfit = N(90)],
    [baseTrade EXCEPT !.status = "CLOSED"],
    [baseTrade EXCEPT !.pnl = N(50)],
    [baseTrade EXCEPT !.symbol = AAPL],
    [baseTrade EXCEPT !.userId = 2] }

\* trade ids a caller may pass to closeTrade
TradeIdInputs == {1, 2, 3}

\* ------------------------------------------------------------ environment

\* TradingEngine.initialize -> BrokerAPI.initialize: the three connections
\* are set, MetaTrader's by a random draw.
Initialize ==
  /\ ~isInitialized
  /\ \E mt \in BOOLEAN :
       connections' = [v \in Venues |-> IF v = "metatrader" THEN mt ELSE TRUE]
  /\ isInitialized' = TRUE
  /\ UNCHANGED <<portfolios, trades, currentTradeId, marketData, activities, calls, ticks, probes,
               sweep, indicators, aiSignals, signalCall>>

\* ProbeOutcomes with the connection issues simulated for every venue
ProbeOutcomes_AnyVenue(key, connected) ==
  {FALSE} \cup (IF ~connected THEN {TRUE} ELSE {}) \cup {connected}

\* the outcomes one pass of the loop of updateConnectionStatus can give a venue
ProbeOutcomes(key, connected) ==
  (IF key = "metatrader" THEN {FALSE} ELSE {})
    \cup (IF ~connected THEN {TRUE} ELSE {})
    \cup {connected}

updateConnectionStatus ==
  /\ probes < MaxProbes
  /\ probes' = probes + 1
  /\ connections' \in {f \in [DOMAIN connections -> BOOLEAN] :
                         \A key \in DOMAIN connections : f[key] \in ProbeOutcomes(key, connections[key])}
  /\ UNCHANGED <<isInitialized, portfolios, trades, currentTradeId, marketData, activities, calls, ticks,
               sweep, indicators, aiSignals, signalCall>>

\* MemStorage.createMarketData, called by a market feed: the row of the
\* symbol is replaced, price and indicators
createMarketDataFrom(symbols, prices, rows) ==
  /\ ticks < MaxTicks
  /\ ticks' = ticks + 1
  /\ \E symbol \in symbols, price \in prices, row \in rows :
       /\ marketData' = [marketData EXCEPT ![symbol] = price]
       /\ indicators' = [indicators EXCEPT ![symbol] = row]
  /\ UNCHANGED <<isInitialized, connections, portfolios, trades, currentTradeId, activities, calls, probes,
                 sweep, aiSignals, signalCall>>

createMarketData == createMarketDataFrom(FeedSymbols, FeedPrices, FeedIndicators)

\* ------------------------------------------------ TradingEngine.executeTrade

Finish(call, result, error) == [call EXCEPT !.pc = "done", !.result = result, !.error = error]

\* a slot is used once, lower slots first
CanStart(c) == calls[c].kind = "idle" /\ \A d \in CallIds : d < c => calls[d].kind # "idle"

\* invocation: the initialisation guard, then validateTrade up to its first
\* await (storage.getPortfolio)
executeTrade(c, tradeData) ==
  /\ CanStart(c)
  /\ LET call == [calls[c] EXCEPT !.kind = "open", !.tradeData = tradeData, !.userId = tradeData.userId]
     IN  calls' = [calls EXCEPT ![c] =
           IF ~isInitialized
           THEN Finish(call, "NotInitialized", "Trading engine not initialized")
           ELSE [call EXCEPT !.pc = "validate", !.portfolio = getPortfolio(tradeData.userId)]]
  /\ UNCHANGED <<isInitialized, connections, portfolios, trades, currentTradeId, marketData, activities, ticks, probes,
               sweep, indicators, aiSignals, signalCall>>

\* validateTrade after the portfolio was read: storage.getActiveTrades, then
\* the checks on the two snapshots
validateTrade(c) ==
  /\ calls[c].kind = "open" /\ calls[c].pc = "validate"
  /\ LET call == calls[c]
         riskCheck == IF call.portfolio = NoPortfolio THEN PortfolioNotFound
                      ELSE RunChecks(call.tradeData, call.portfolio, getActiveTrades(call.userId))
     IN  calls' = [calls EXCEPT ![c] = [call EXCEPT !.pc = "execute", !.riskCheck = riskCheck,
                                                    !.portfolio = NoPortfolio]]
  /\ UNCHANGED <<isInitialized, connections, portfolios, trades, currentTradeId, marketData, activities, ticks, probes,
               sweep, indicators, aiSignals, signalCall>>

\* brokerExecuteTrade without the veto: a rejected trade goes on to the venue
brokerExecuteTrade_NoVeto(c) ==
  /\ calls[c].kind = "open" /\ calls[c].pc = "execute"
  /\ LET call == calls[c]
         tradeData == call.tradeData
         broker == selectBroker(tradeData.symbol)
         price == parseFloat(tradeData.entryPrice)
     IN  IF ~connections[broker]
         THEN calls' = [calls EXCEPT ![c] =
                Finish([call EXCEPT !.nExecute = @ + 1, !.broker = broker],
                       "VenueUnavailable", "Broker is not connected")]
         ELSE \E slip \in Slippage :
                calls' = [calls EXCEPT ![c] =
                  [call EXCEPT !.pc = "create", !.nExecute = @ + 1, !.broker = broker,
                               !.executedPrice = NumAdd(price, slip),
                               !.executedQuantity = parseFloat(tradeData.quantity)]]
  /\ UNCHANGED <<isInitialized, connections, portfolios, trades, currentTradeId, marketData, activities, ticks, probes,
               sweep, indicators, aiSignals, signalCall>>

\* brokerExecuteTrade without the connection test: a disconnected venue executes
brokerExecuteTrade_IgnoreConnection(c) ==
  /\ calls[c].kind = "open" /\ calls[c].pc = "execute"
  /\ LET call == calls[c]
         tradeData == call.tradeData
         price == parseFloat(tradeData.entryPrice)
     IN  IF ~call.riskCheck.allowed
         THEN calls' = [calls EXCEPT ![c] = Finish(call, "RiskRejected", call.riskCheck.reason)]
         ELSE \E slip \in Slippage :
                calls' = [calls EXCEPT ![c] =
                  [call EXCEPT !.pc = "create", !.nExecute = @ + 1,
                               !.broker = selectBroker(tradeData.symbol),
                               !.executedPrice = NumAdd(price, slip),
                               !.executedQuantity = parseFloat(tradeData.quantity)]]
  /\ UNCHANGED <<isInitialized, connections, portfolios, trades, currentTradeId, marketData, activities, ticks, probes,
               sweep, indicators, aiSignals, signalCall>>

\* executeTrade after validateTrade returned: the veto, else
\* BrokerAPI.executeTrade on the selected venue
brokerExecuteTrade(c) ==
  /\ calls[c].kind = "open" /\ calls[c].pc = "execute"
  /\ LET call == calls[c]
         tradeData == call.tradeData
         broker == selectBroker(tradeData.symbol)
         price == parseFloat(tradeData.entryPrice)
     IN  IF ~call.riskCheck.allowed
         THEN calls' = [calls EXCEPT ![c] = Finish(call, "RiskRejected", call.riskCheck.reason)]
         ELSE IF ~connections[broker]
         THEN calls' = [calls EXCEPT ![c] =
                Finish([call EXCEPT !.nExecute = @ + 1, !.broker = broker],
                       "VenueUnavailable", "Broker is not connected")]
         ELSE \E slip \in Slippage :
                calls' = [calls EXCEPT ![c] =
                  [call EXCEPT !.pc = "create", !.nExecute = @ + 1, !.broker = broker,
                               !.executedPrice = NumAdd(price, slip),
                               !.executedQuantity = parseFloat(tradeData.quantity)]]
  /\ UNCHANGED <<isInitialized, connections, portfolios, trades, currentTradeId, marketData, activities, ticks, probes,
               sweep, indicators, aiSignals, signalCall>>

\* storage.createTrade({...tradeData, entryPrice, currentPrice})
createTrade(c) ==
  /\ calls[c].kind = "open" /\ calls[c].pc = "create"
  /\ LET call == calls[c]
         insertTrade == [call.tradeData EXCEPT !.entryPrice = toString(call.executedPrice),
                                               !.currentPrice = toString(call.executedPrice)]
         trade == NewTrade(insertTrade, currentTradeId)
     IN  /\ trades' = Append(trades, trade)
         /\ currentTradeId' = currentTradeId + 1
         /\ calls' = [calls EXCEPT ![c] = [call EXCEPT !.pc = "log", !.trade = trade, !.nTradeWrites = @ + 1]]
  /\ UNCHANGED <<isInitialized, connections, portfolios, marketData, activities, ticks, probes,
               sweep, indicators, aiSignals, signalCall>>

\* storage.createActivity(TRADE_EXECUTED)
logTradeExecuted(c) ==
  /\ calls[c].kind = "open" /\ calls[c].pc = "log"
  /\ LET call == calls[c]
     IN  /\ activities' = Append(activities,
              Activity(call.tradeData.userId, "TRADE_EXECUTED", call.tradeData.symbol, "SUCCESS"))
         /\ calls' = [calls EXCEPT ![c] = [call EXCEPT !.pc = "pf_get", !.nAudit = @ + 1]]
  /\ UNCHANGED <<isInitialized, connections, portfolios, trades, currentTradeId, marketData, ticks, probes,
               sweep, indicators, aiSignals, signalCall>>


\* -------------------------------------------------- TradingEngine.closeTrade

\* a closeTrade call that has made its first read: storage.getTrades(userId),
\* searched for the OPEN trade
StartClose(tradeId, userId) ==
  [IdleCall EXCEPT !.kind = "close", !.pc = "market", !.tradeId = tradeId, !.userId = userId,
                   !.trade = FindOpenTrade(tradeId, userId)]

\* invocation by a caller of the engine
closeTrade(c, tradeId, userId) ==
  /\ CanStart(c)
  /\ calls' = [calls EXCEPT ![c] = StartClose(tradeId, userId)]
  /\ UNCHANGED <<isInitialized, connections, portfolios, trades, currentTradeId, marketData, activities, ticks, probes,
               sweep, indicators, aiSignals, signalCall>>

\* the NotFound throw, else storage.getMarketData(trade.symbol)
closeGetMarketData(c) ==
  /\ calls[c].kind = "close" /\ calls[c].pc = "market"
  /\ LET call == calls[c]
     IN  calls' = [calls EXCEPT ![c] =
           IF call.trade = NoTrade
           THEN Finish(call, "NotFound", "Trade not found or already closed")
           ELSE [call EXCEPT !.pc = "broker", !.closePrice = getMarketData(call.trade.symbol)]]
  /\ UNCHANGED <<isInitialized, connections, portfolios, trades, currentTradeId, marketData, activities, ticks, probes,
               sweep, indicators, aiSignals, signalCall>>

\* realized P&L of a trade closed at closePrice
ClosePnl(trade, closePrice) ==
  LET entryPrice == parseFloat(trade.entryPrice)
      quantity == parseFloat(trade.quantity)
  IN  IF trade.type = "BUY"
      THEN NumMul(NumSub(closePrice, entryPrice), quantity)
      ELSE NumMul(NumSub(entryPrice, closePrice), quantity)

\* brokerCloseTrade without the market data test: a missing price closes at NaN
brokerCloseTrade_NoDataCheck(c) ==
  /\ calls[c].kind = "close" /\ calls[c].pc = "broker"
  /\ LET call == calls[c]
         closePrice == parseFloat(call.closePrice)
     IN  calls' = [calls EXCEPT ![c] =
           [call EXCEPT !.pc = "store", !.closePrice = closePrice,
                        !.pnl = ClosePnl(call.trade, closePrice), !.nVenueClose = @ + 1]]
  /\ UNCHANGED <<isInitialized, connections, portfolios, trades, currentTradeId, marketData, activities, ticks, probes,
               sweep, indicators, aiSignals, signalCall>>

\* the DataUnavailable throw, else the P&L and BrokerAPI.closeTrade, which
\* only logs
brokerCloseTrade(c) ==
  /\ calls[c].kind = "close" /\ calls[c].pc = "broker"
  /\ LET call == calls[c]
         closePrice == parseFloat(call.closePrice)
     IN  calls' = [calls EXCEPT ![c] =
           IF call.closePrice = NULL
           THEN Finish([call EXCEPT !.closePrice = NaN], "DataUnavailable", "Market data not available")
           ELSE [call EXCEPT !.pc = "store", !.closePrice = closePrice,
                             !.pnl = ClosePnl(call.trade, closePrice), !.nVenueClose = @ + 1]]
  /\ UNCHANGED <<isInitialized, connections, portfolios, trades, currentTradeId, marketData, activities, ticks, probes,
               sweep, indicators, aiSignals, signalCall>>

\* storage.closeTrade(tradeId, closePrice.toString(), pnl.toString())
storageCloseTrade(c) ==
  /\ calls[c].kind = "close" /\ calls[c].pc = "store"
  /\ LET call == calls[c]
         id == call.tradeId
     IN  IF id \in 1..Len(trades)
         THEN LET updated == ClosedTrade(trades[id], toString(call.closePrice), toString(call.pnl))
              IN  /\ trades' = [trades EXCEPT ![id] = updated]
                  /\ calls' = [calls EXCEPT ![c] = [call EXCEPT !.pc = "closelog", !.trade = updated,
                                                               !.nTradeWrites = @ + 1]]
         ELSE /\ trades' = trades
              /\ calls' = [calls EXCEPT ![c] = Finish(call, "CloseFailed", "Failed to close trade")]
  /\ UNCHANGED <<isInitialized, connections, portfolios, currentTradeId, marketData, activities, ticks, probes,
               sweep, indicators, aiSignals, signalCall>>

\* storage.createActivity(TRADE_CLOSED)
logTradeClosed(c) ==
  /\ calls[c].kind = "close" /\ calls[c].pc = "closelog"
  /\ LET call == calls[c]
     IN  /\ activities' = Append(activities,
              Activity(call.userId, "TRADE_CLOSED", call.trade.symbol,
                       IF NumGt(call.pnl, N(0)) THEN "SUCCESS" ELSE "WARNING"))
         /\ calls' = [calls EXCEPT ![c] = [call EXCEPT !.pc = "pf_get", !.nAudit = @ + 1]]
  /\ UNCHANGED <<isInitialized, connections, portfolios, trades, currentTradeId, marketData, ticks, probes,
               sweep, indicators, aiSignals, signalCall>>

\* ---------------------------------- TradingEngine.updatePortfolioAfterTrade

\* storage.getPortfolio(userId)
portfolioGet(c) ==
  /\ calls[c].pc = "pf_get"
  /\ calls' = [calls EXCEPT ![c] = [calls[c] EXCEPT !.pc = "pf_compute",
                                                    !.portfolio = getPortfolio(calls[c].userId)]]
  /\ UNCHANGED <<isInitialized, connections, portfolios, trades, currentTradeId, marketData, activities, ticks, probes,
               sweep, indicators, aiSignals, signalCall>>

\* the three new values computed from the portfolio that was read
PortfolioUpdates(portfolio, trade) ==
  LET tradePnL == parseFloat(IF Truthy(trade.pnl) THEN trade.pnl ELSE N(0))
  IN  [totalValue |-> toString(NumAdd(parseFloat(portfolio.totalValue), tradePnL)),
       dailyPnL |-> toString(NumAdd(parseFloat(portfolio.dailyPnL), tradePnL)),
       totalPnL |-> toString(NumAdd(parseFloat(portfolio.totalPnL), tradePnL))]

\* the early return, else the new values and storage.updatePortfolio up to
\* its own await of getPortfolio
portfolioCompute(c) ==
  /\ calls[c].pc = "pf_compute"
  /\ LET call == calls[c]
     IN  calls' = [calls EXCEPT ![c] =
           IF call.portfolio = NoPortfolio
           THEN Finish(call, "Success", "")
           ELSE [call EXCEPT !.pc = "pf_set",
                             !.updates = PortfolioUpdates(call.portfolio, call.trade),
                             !.portfolio = getPortfolio(call.userId)]]
  /\ UNCHANGED <<isInitialized, connections, portfolios, trades, currentTradeId, marketData, activities, ticks, probes,
               sweep, indicators, aiSignals, signalCall>>

\* storage.updatePortfolio after its await: portfolios.set(id, {...portfolio, ...updates});
\* the engine call then returns its trade
portfolioSet(c) ==
  /\ calls[c].pc = "pf_set"
  /\ LET call == calls[c]
         done == Finish([call EXCEPT !.portfolio = NoPortfolio, !.updates = NoUpdates], "Success", "")
     IN  IF call.portfolio = NoPortfolio
         THEN /\ portfolios' = portfolios
              /\ calls' = [calls EXCEPT ![c] = done]
         ELSE /\ portfolios' = [portfolios EXCEPT ![call.portfolio.id] =
                                   MergePortfolio(call.portfolio, call.updates)]
              /\ calls' = [calls EXCEPT ![c] = [done EXCEPT !.nPortfolioWrites = @ + 1]]
  /\ UNCHANGED <<isInitialized, connections, trades, currentTradeId, marketData, activities, ticks, probes,
               sweep, indicators, aiSignals, signalCall>>

\* ---------------------------------------------- TradingEngine.updateOpenTrades

\* runs of the monitor timer
MaxSweeps == 1

\* invocation by the 10 s timer: storage.getTrades(1), filtered for OPEN
updateOpenTrades ==
  /\ sweep.pc \in {"idle", "done"}
  /\ sweep.n < MaxSweeps
  /\ sweep' = [IdleSweep EXCEPT !.pc = "loop", !.n = sweep.n + 1,
                                !.openTrades = SelectSeq(getTrades(1), LAMBDA t : t.status = "OPEN")]
  /\ UNCHANGED <<isInitialized, connections, portfolios, trades, currentTradeId, marketData,
                 activities, calls, ticks, probes, indicators, aiSignals, signalCall>>

\* the head of the loop for the i-th trade of the snapshot: the loop ends,
\* or storage.getMarketData(trade.symbol) is read
Iteration(sw, i) ==
  IF i > Len(sw.openTrades)
  THEN [sw EXCEPT !.pc = "done", !.i = i, !.currentPrice = NaN]
  ELSE [sw EXCEPT !.pc = "update", !.i = i,
                  !.currentPrice = getMarketData(sw.openTrades[i].symbol)]

\* after the await of getTrades: the first iteration
sweepLoop ==
  /\ sweep.pc = "loop"
  /\ sweep' = Iteration(sweep, 1)
  /\ UNCHANGED <<isInitialized, connections, portfolios, trades, currentTradeId, marketData,
                 activities, calls, ticks, probes, indicators, aiSignals, signalCall>>

\* {...trade, ...updates} of storage.updateTrade for the two fields the monitor writes
UpdatedTrade(trade, currentPrice, pnl) ==
  [trade EXCEPT !.currentPrice = currentPrice, !.pnl = pnl]

\* sweepUpdateTrade ending the run on a missing price
sweepUpdateTrade_Abort ==
  /\ sweep.pc = "update"
  /\ LET trade == sweep.openTrades[sweep.i]
         currentPrice == parseFloat(sweep.currentPrice)
         pnl == ClosePnl(trade, currentPrice)
     IN  IF sweep.currentPrice = NULL
         THEN /\ sweep' = [sweep EXCEPT !.pc = "done", !.error = "DataUnavailable"]
              /\ trades' = trades
         ELSE /\ sweep' = [sweep EXCEPT !.pc = "exit", !.currentPrice = currentPrice]
              /\ trades' = IF trade.id \in 1..Len(trades)
                           THEN [trades EXCEPT ![trade.id] =
                                   UpdatedTrade(trades[trade.id], toString(currentPrice), toString(pnl))]
                           ELSE trades
  /\ UNCHANGED <<isInitialized, connections, portfolios, currentTradeId, marketData,
                 activities, calls, ticks, probes, indicators, aiSignals, signalCall>>

\* after the await of getMarketData: `continue` on a missing price, else the
\* unrealized P&L and storage.updateTrade(trade.id, {currentPrice, pnl})
sweepUpdateTrade ==
  /\ sweep.pc = "update"
  /\ LET trade == sweep.openTrades[sweep.i]
         currentPrice == parseFloat(sweep.currentPrice)
         pnl == ClosePnl(trade, currentPrice)
     IN  IF sweep.currentPrice = NULL
         THEN /\ sweep' = Iteration(sweep, sweep.i + 1)
              /\ trades' = trades
         ELSE /\ sweep' = [sweep EXCEPT !.pc = "exit", !.currentPrice = currentPrice]
              /\ trades' = IF trade.id \in 1..Len(trades)
                           THEN [trades EXCEPT ![trade.id] =
                                   UpdatedTrade(trades[trade.id], toString(currentPrice), toString(pnl))]
                           ELSE trades
  /\ UNCHANGED <<isInitialized, connections, portfolios, currentTradeId, marketData,
                 activities, calls, ticks, probes, indicators, aiSignals, signalCall>>

\* ExitReason with the target tested before the stop
ExitReason_TargetFirst(trade, currentPrice) ==
  IF Truthy(trade.takeProfit) /\ trade.type = "BUY" /\ NumGe(currentPrice, parseFloat(trade.takeProfit))
  THEN "Take Profit"
  ELSE IF Truthy(trade.takeProfit) /\ trade.type = "SELL" /\ NumLe(currentPrice, parseFloat(trade.takeProfit))
  THEN "Take Profit"
  ELSE IF Truthy(trade.stopLoss) /\ trade.type = "BUY" /\ NumLe(currentPrice, parseFloat(trade.stopLoss))
  THEN "Stop Loss"
  ELSE IF Truthy(trade.stopLoss) /\ trade.type = "SELL" /\ NumGe(currentPrice, parseFloat(trade.stopLoss))
  THEN "Stop Loss"
  ELSE ""

\* the reason checkTradeExitConditions finds for closing the trade, "" for none
ExitReason(trade, currentPrice) ==
  IF Truthy(trade.stopLoss) /\ trade.type = "BUY" /\ NumLe(currentPrice, parseFloat(trade.stopLoss))
  THEN "Stop Loss"
  ELSE IF Truthy(trade.stopLoss) /\ trade.type = "SELL" /\ NumGe(currentPrice, parseFloat(trade.stopLoss))
  THEN "Stop Loss"
  ELSE IF Truthy(trade.takeProfit) /\ trade.type = "BUY" /\ NumGe(currentPrice, parseFloat(trade.takeProfit))
  THEN "Take Profit"
  ELSE IF Truthy(trade.takeProfit) /\ trade.type = "SELL" /\ NumLe(currentPrice, parseFloat(trade.takeProfit))
  THEN "Take Profit"
  ELSE ""

\* after the await of updateTrade: the exit conditions of the snapshot trade;
\* closeTrade(trade.id, trade.userId) is invoked on a reason, else the loop
\* goes on to the next trade
checkTradeExitConditions ==
  /\ sweep.pc = "exit"
  /\ LET trade == sweep.openTrades[sweep.i]
         reason == ExitReason(trade, sweep.currentPrice)
     IN  IF reason # ""
         THEN /\ sweep' = [sweep EXCEPT !.pc = "closing", !.reason = reason]
              /\ calls' = [calls EXCEPT ![MonitorCall] = StartClose(trade.id, trade.userId)]
         ELSE /\ sweep' = Iteration([sweep EXCEPT !.reason = ""], sweep.i + 1)
              /\ calls' = calls
  /\ UNCHANGED <<isInitialized, connections, portfolios, trades, currentTradeId, marketData,
                 activities, ticks, probes, indicators, aiSignals, signalCall>>

\* the monitor's closeTrade has returned: the reason goes to the console and
\* the loop goes on, or the error ends the run in the catch of updateOpenTrades
sweepCloseReturned ==
  /\ sweep.pc = "closing"
  /\ calls[MonitorCall].pc = "done"
  /\ sweep' = IF calls[MonitorCall].result = "Success"
              THEN Iteration(sweep, sweep.i + 1)
              ELSE [sweep EXCEPT !.pc = "done", !.error = calls[MonitorCall].result]
  /\ calls' = [calls EXCEPT ![MonitorCall] = IdleCall]
  /\ UNCHANGED <<isInitialized, connections, portfolios, trades, currentTradeId, marketData,
                 activities, ticks, probes, indicators, aiSignals, signalCall>>

\* ---------------------------------------- RiskManager.monitorPortfolioRisk

calculatePortfolioRiskExposure(activeTrades, portfolio) ==
  NumMul(NumDiv(SumRisk(activeTrades), parseFloat(portfolio.totalValue)), N(100))

\* the activity generateRiskAlert(1, ...) creates
RiskAlert == Activity(1, "RISK_ALERT", <<>>, "WARNING")

\* invocation by the 5 min timer: storage.getPortfolio(1)
monitorPortfolioRisk ==
  /\ calls[RiskMonitorCall].kind = "idle"
  /\ calls' = [calls EXCEPT ![RiskMonitorCall] =
       [IdleCall EXCEPT !.kind = "risk", !.pc = "rm_trades", !.userId = 1, !.portfolio = getPortfolio(1)]]
  /\ UNCHANGED <<isInitialized, connections, portfolios, trades, currentTradeId, marketData, activities, ticks, probes,
               sweep, indicators, aiSignals, signalCall>>

\* the early return, else storage.getActiveTrades(1); totalRiskExposure is
\* a function of the two snapshots and is kept in place of the active trades
riskGetActiveTrades ==
  /\ calls[RiskMonitorCall].pc = "rm_trades"
  /\ LET call == calls[RiskMonitorCall]
     IN  calls' = [calls EXCEPT ![RiskMonitorCall] =
           IF call.portfolio = NoPortfolio
           THEN Finish(call, "Success", "")
           ELSE [call EXCEPT !.pc = "rm_exposure",
                             !.riskExposure = calculatePortfolioRiskExposure(getActiveTrades(1), call.portfolio)]]
  /\ UNCHANGED <<isInitialized, connections, portfolios, trades, currentTradeId, marketData, activities, ticks, probes,
               sweep, indicators, aiSignals, signalCall>>

\* storage.updatePortfolio(1, {riskExposure}) up to its await of getPortfolio:
\* the call and the activities after this block
RiskUpdateStep(call) ==
  << [call EXCEPT !.pc = "rm_set", !.riskExposure = toFixed(call.riskExposure, 2),
                  !.portfolio = getPortfolio(1)],
     activities >>

\* the daily loss test on the portfolio read at the start: the alert is
\* created and awaited, else the run goes on to the update
RiskDailyStep(call) ==
  LET dailyPnL == parseFloat(call.portfolio.dailyPnL)
      dailyLossPercent == NumMul(NumAbs(NumDiv(dailyPnL, parseFloat(call.portfolio.totalValue))), N(100))
  IN  IF NumLt(dailyPnL, N(0)) /\ NumGt(dailyLossPercent, NumMul(N(maxDailyLoss), <<4, 5>>))
      THEN << [call EXCEPT !.pc = "rm_update", !.nAudit = @ + 1], Append(activities, RiskAlert) >>
      ELSE RiskUpdateStep(call)

\* the exposure test on the stored riskExposure: the alert is created and
\* awaited, else the run goes on to the daily loss test
RiskExposureStep(call) ==
  IF NumGt(parseFloat(call.portfolio.riskExposure), NumMul(N(maxTotalRisk), <<4, 5>>))
  THEN << [call EXCEPT !.pc = "rm_daily", !.nAudit = @ + 1], Append(activities, RiskAlert) >>
  ELSE RiskDailyStep(call)

\* after the await of getActiveTrades
riskCheckExposure ==
  /\ calls[RiskMonitorCall].pc = "rm_exposure"
  /\ LET next == RiskExposureStep(calls[RiskMonitorCall])
     IN  /\ calls' = [calls EXCEPT ![RiskMonitorCall] = next[1]]
         /\ activities' = next[2]
  /\ UNCHANGED <<isInitialized, connections, portfolios, trades, currentTradeId, marketData, ticks, probes,
               sweep, indicators, aiSignals, signalCall>>

\* after the await of the exposure alert
riskCheckDailyLoss ==
  /\ calls[RiskMonitorCall].pc = "rm_daily"
  /\ LET next == RiskDailyStep(calls[RiskMonitorCall])
     IN  /\ calls' = [calls EXCEPT ![RiskMonitorCall] = next[1]]
         /\ activities' = next[2]
  /\ UNCHANGED <<isInitialized, connections, portfolios, trades, currentTradeId, marketData, ticks, probes,
               sweep, indicators, aiSignals, signalCall>>

\* after the await of the daily loss alert
riskUpdatePortfolio ==
  /\ calls[RiskMonitorCall].pc = "rm_update"
  /\ LET next == RiskUpdateStep(calls[RiskMonitorCall])
     IN  /\ calls' = [calls EXCEPT ![RiskMonitorCall] = next[1]]
         /\ activities' = next[2]
  /\ UNCHANGED <<isInitialized, connections, portfolios, trades, currentTradeId, marketData, ticks, probes,
               sweep, indicators, aiSignals, signalCall>>

\* storage.updatePortfolio after its await: portfolios.set(id, {...portfolio, riskExposure})
riskSetPortfolio ==
  /\ calls[RiskMonitorCall].pc = "rm_set"
  /\ LET call == calls[RiskMonitorCall]
         done == Finish([call EXCEPT !.portfolio = NoPortfolio], "Success", "")
     IN  IF call.portfolio = NoPortfolio
         THEN /\ portfolios' = portfolios
              /\ calls' = [calls EXCEPT ![RiskMonitorCall] = done]
         ELSE /\ portfolios' = [portfolios EXCEPT ![call.portfolio.id] =
                                   [call.portfolio EXCEPT !.riskExposure = call.riskExposure]]
              /\ calls' = [calls EXCEPT ![RiskMonitorCall] = [done EXCEPT !.nPortfolioWrites = @ + 1]]
  /\ UNCHANGED <<isInitialized, connections, trades, currentTradeId, marketData, activities, ticks, probes,
               sweep, indicators, aiSignals, signalCall>>

\* ------------------------------------------------------------------ AIModels

\* calls of AIModels.generateSignal
MaxSignals == 1

generateLSTMSignal(symbol, price, row) ==
  LET currentPrice == parseFloat(price)
      ema12 == ToNumber(row.ema12)
      ema26 == ToNumber(row.ema26)
      rsi == ToNumber(row.rsi)
      atr == ToNumber(row.atr)
      entryPrice == toFixed(currentPrice, 5)
  IN  IF NumGt(ema12, ema26) /\ NumLt(rsi, N(70))
      THEN Signal(symbol, "BUY",
                  toString(NumMin(N(85), NumAdd(N(60), NumMul(NumSub(ema12, ema26), N(1000))))), "LSTM",
                  entryPrice,
                  toFixed(NumSub(currentPrice, NumMul(atr, N(2))), 5),
                  toFixed(NumAdd(currentPrice, NumMul(atr, N(3))), 5), "LSTM")
      ELSE IF NumLt(ema12, ema26) /\ NumGt(rsi, N(30))
      THEN Signal(symbol, "SELL",
                  toString(NumMin(N(85), NumAdd(N(60), NumMul(NumSub(ema26, ema12), N(1000))))), "LSTM",
                  entryPrice,
                  toFixed(NumAdd(currentPrice, NumMul(atr, N(2))), 5),
                  toFixed(NumSub(currentPrice, NumMul(atr, N(3))), 5), "LSTM")
      ELSE Signal(symbol, "HOLD", toString(N(50)), "LSTM", entryPrice, NULL, NULL, "LSTM")

generateXGBoostSignal(symbol, price, row) ==
  LET currentPrice == parseFloat(price)
      rsi == ToNumber(row.rsi)
      support == ToNumber(row.support)
      resistance == ToNumber(row.resistance)
      macd == ToNumber(row.macd)
      rsi_oversold == NumLt(rsi, N(30))
      rsi_overbought == NumGt(rsi, N(70))
      price_near_support == NumLe(currentPrice, NumMul(support, <<101, 100>>))
      price_near_resistance == NumGe(currentPrice, NumMul(resistance, <<99, 100>>))
      macd_bullish == NumGt(macd, N(0))
      bollinger_squeeze ==
        NumLt(NumSub(ToNumber(row.bollinger_upper), ToNumber(row.bollinger_lower)),
              NumMul(currentPrice, <<1, 50>>))
      entryPrice == toFixed(currentPrice, 5)
  IN  IF rsi_oversold /\ price_near_support /\ macd_bullish
      THEN Signal(symbol, "BUY", toString(N(78)), "XGBoost", entryPrice,
                  toFixed(NumMul(support, <<199, 200>>), 5),
                  toFixed(NumMul(resistance, <<201, 200>>), 5), "XGBoost")
      ELSE IF rsi_overbought /\ price_near_resistance /\ ~macd_bullish
      THEN Signal(symbol, "SELL", toString(N(75)), "XGBoost", entryPrice,
                  toFixed(NumMul(resistance, <<201, 200>>), 5),
                  toFixed(NumMul(support, <<199, 200>>), 5), "XGBoost")
      ELSE IF bollinger_squeeze
      THEN Signal(symbol, "HOLD", toString(N(65)), "XGBoost", entryPrice, NULL, NULL, "XGBoost")
      ELSE Signal(symbol, "HOLD", toString(N(50)), "XGBoost", entryPrice, NULL, NULL, "XGBoost")

generateCNNSignal(symbol, price, row) ==
  LET currentPrice == parseFloat(price)
      rsi == ToNumber(row.rsi)
      sma20 == ToNumber(row.sma20)
      support == ToNumber(row.support)
      resistance == ToNumber(row.resistance)
      atr == ToNumber(row.atr)
      hammer == NumLt(rsi, N(40)) /\ NumGt(currentPrice, NumMul(sma20, <<49, 50>>))
      engulfing_bullish == NumLt(rsi, N(50)) /\ NumGt(currentPrice, sma20)
      engulfing_bearish == NumGt(rsi, N(50)) /\ NumLt(currentPrice, sma20)
      triangle_breakout == NumGt(currentPrice, NumMul(resistance, <<501, 500>>))
      triangle_breakdown == NumLt(currentPrice, NumMul(support, <<499, 500>>))
      entryPrice == toFixed(currentPrice, 5)
      buy(confidence) ==
        Signal(symbol, "BUY", toString(N(confidence)), "CNN", entryPrice,
               toFixed(NumSub(currentPrice, NumMul(atr, <<3, 2>>)), 5),
               toFixed(NumAdd(currentPrice, NumMul(atr, <<5, 2>>)), 5), "CNN")
      sell(confidence) ==
        Signal(symbol, "SELL", toString(N(confidence)), "CNN", entryPrice,
               toFixed(NumAdd(currentPrice, NumMul(atr, <<3, 2>>)), 5),
               toFixed(NumSub(currentPrice, NumMul(atr, <<5, 2>>)), 5), "CNN")
  IN  IF hammer \/ engulfing_bullish THEN buy(81)
      ELSE IF engulfing_bearish THEN sell(79)
      ELSE IF triangle_breakout THEN buy(75)
      ELSE IF triangle_breakdown THEN sell(73)
      ELSE Signal(symbol, "HOLD", toString(N(50)), "CNN", entryPrice, NULL, NULL, "CNN")

\* weights[signal.model] || 0.33
Weight(model) ==
  IF model = "LSTM" THEN <<2, 5>>
  ELSE IF model = "XGBoost" THEN <<7, 20>>
  ELSE IF model = "CNN" THEN <<1, 4>>
  ELSE <<33, 100>>

\* the score the forEach accumulates for one direction, in array order
RECURSIVE Score(_, _)
Score(signals, direction) ==
  IF signals = <<>> THEN N(0)
  ELSE LET n == Len(signals)
           signal == signals[n]
           confidence == parseFloat(IF Truthy(signal.confidence) THEN signal.confidence ELSE N(0))
           rest == Score(SubSeq(signals, 1, n - 1), direction)
       IN  IF signal.signal = direction THEN NumAdd(rest, NumMul(confidence, Weight(signal.model)))
           ELSE rest

\* combineSignals with the threshold included
combineSignals_Inclusive(signals) ==
  LET buyScore == Score(signals, "BUY")
      sellScore == Score(signals, "SELL")
      finalSignal == IF NumGt(buyScore, sellScore) /\ NumGe(buyScore, N(60)) THEN "BUY"
                     ELSE IF NumGt(sellScore, buyScore) /\ NumGe(sellScore, N(60)) THEN "SELL"
                     ELSE "HOLD"
      finalConfidence == IF finalSignal = "BUY" THEN buyScore
                         ELSE IF finalSignal = "SELL" THEN sellScore
                         ELSE NumMax(buyScore, sellScore)
      baseSignal == signals[1]
  IN  Signal(baseSignal.symbol, finalSignal, toFixed(finalConfidence, 1),
             IF NumGt(finalConfidence, N(70)) THEN "ENSEMBLE" ELSE baseSignal.model,
             baseSignal.entryPrice, baseSignal.stopLoss, baseSignal.takeProfit, baseSignal.expiresAt)

\* combineSignals taking its base from the last signal
combineSignals_LastBase(signals) ==
  LET buyScore == Score(signals, "BUY")
      sellScore == Score(signals, "SELL")
      finalSignal == IF NumGt(buyScore, sellScore) /\ NumGt(buyScore, N(60)) THEN "BUY"
                     ELSE IF NumGt(sellScore, buyScore) /\ NumGt(sellScore, N(60)) THEN "SELL"
                     ELSE "HOLD"
      finalConfidence == IF finalSignal = "BUY" THEN buyScore
                         ELSE IF finalSignal = "SELL" THEN sellScore
                         ELSE NumMax(buyScore, sellScore)
      baseSignal == signals[Len(signals)]
  IN  Signal(baseSignal.symbol, finalSignal, toFixed(finalConfidence, 1),
             IF NumGt(finalConfidence, N(70)) THEN "ENSEMBLE" ELSE baseSignal.model,
             baseSignal.entryPrice, baseSignal.stopLoss, baseSignal.takeProfit, baseSignal.expiresAt)

combineSignals(signals) ==
  LET buyScore == Score(signals, "BUY")
      sellScore == Score(signals, "SELL")
      finalSignal == IF NumGt(buyScore, sellScore) /\ NumGt(buyScore, N(60)) THEN "BUY"
                     ELSE IF NumGt(sellScore, buyScore) /\ NumGt(sellScore, N(60)) THEN "SELL"
                     ELSE "HOLD"
      finalConfidence == IF finalSignal = "BUY" THEN buyScore
                         ELSE IF finalSignal = "SELL" THEN sellScore
                         ELSE NumMax(buyScore, sellScore)
      baseSignal == signals[1]
  IN  Signal(baseSignal.symbol, finalSignal, toFixed(finalConfidence, 1),
             IF NumGt(finalConfidence, N(70)) THEN "ENSEMBLE" ELSE baseSignal.model,
             baseSignal.entryPrice, baseSignal.stopLoss, baseSignal.takeProfit, baseSignal.expiresAt)

\* invocation: storage.getMarketData(symbol)
generateSignal(symbol) ==
  /\ signalCall.pc \in {"idle", "done"}
  /\ signalCall.n < MaxSignals
  /\ signalCall' = [IdleSignalCall EXCEPT !.pc = "models", !.symbol = symbol, !.n = signalCall.n + 1,
                                          !.price = getMarketData(symbol),
                                          !.indicators = indicators[symbol]]
  /\ UNCHANGED <<isInitialized, connections, portfolios, trades, currentTradeId, marketData,
                 activities, calls, ticks, probes, sweep, indicators, aiSignals>>

SignalDone(call, result, error) == [call EXCEPT !.pc = "done", !.result = result, !.error = error]

\* after the await of getMarketData: the throw on a missing row, the three
\* sub-strategies (a null indicators object makes the first property read
\* throw), combineSignals and storage.createAiSignal
createAiSignal ==
  /\ signalCall.pc = "models"
  /\ LET call == signalCall
         signals == << generateLSTMSignal(call.symbol, call.price, call.indicators),
                       generateXGBoostSignal(call.symbol, call.price, call.indicators),
                       generateCNNSignal(call.symbol, call.price, call.indicators) >>
         combined == combineSignals(signals)
     IN  IF call.price = NULL
         THEN /\ signalCall' = SignalDone(call, "DataUnavailable", "No market data available")
              /\ aiSignals' = aiSignals
         ELSE IF ~call.indicators.object
         THEN /\ signalCall' = SignalDone(call, "TypeError", "Cannot read properties of null")
              /\ aiSignals' = aiSignals
         ELSE /\ signalCall' = [call EXCEPT !.pc = "log", !.signals = signals, !.combined = combined,
                                            !.nStored = @ + 1]
              /\ aiSignals' = Append(aiSignals, combined)
  /\ UNCHANGED <<isInitialized, connections, portfolios, trades, currentTradeId, marketData,
                 activities, calls, ticks, probes, sweep, indicators>>

\* storage.createActivity(AI_SIGNAL_GENERATED), then the signal is returned
logSignalGenerated ==
  /\ signalCall.pc = "log"
  /\ activities' = Append(activities, Activity(0, "AI_SIGNAL_GENERATED", signalCall.symbol, "INFO"))
  /\ signalCall' = SignalDone([signalCall EXCEPT !.nAudit = @ + 1], "Success", "")
  /\ UNCHANGED <<isInitialized, connections, portfolios, trades, currentTradeId, marketData,
                 calls, ticks, probes, sweep, indicators, aiSignals>>

\* ------------------------------------------------------------ specification

Next ==
  \/ Initialize
  \/ updateConnectionStatus
  \/ createMarketData
  \/ \E c \in CallIds, tradeData \in TradeInputs : executeTrade(c, tradeData)
  \/ \E c \in CallIds : validateTrade(c)
  \/ \E c \in CallIds : brokerExecuteTrade(c)
  \/ \E c \in CallIds : createTrade(c)
  \/ \E c \in CallIds : logTradeExecuted(c)
  \/ \E c \in CallIds, tradeId \in TradeIdInputs, userId \in Users : closeTrade(c, tradeId, userId)
  \/ \E c \in CallIds : closeGetMarketData(c)
  \/ \E c \in CallIds : brokerCloseTrade(c)
  \/ \E c \in CallIds : storageCloseTrade(c)
  \/ \E c \in CallIds : logTradeClosed(c)
  \/ \E c \in CallIds : portfolioGet(c)
  \/ \E c \in CallIds : portfolioCompute(c)
  \/ \E c \in CallIds : portfolioSet(c)

Spec == Init /\ [][Next]_vars

\* ------------------------------------------------- the monitor specification

\* The store after one more executeTrade of user 1 on EUR/USD at 100: a
\* trade without stop or without target, with both on the right sides, or
\* with them crossed (stop above target for a BUY).
MonitorTrade(type, stopLoss, takeProfit) ==
  InsertTrade(1, EURUSD, type, "OPEN", N(100), N(10), stopLoss, takeProfit, NULL)
MonitorTrades ==
  { MonitorTrade("BUY", NULL, N(110)), MonitorTrade("BUY", N(90), NULL),
    MonitorTrade("BUY", N(110), N(90)),
    MonitorTrade("SELL", N(110), N(90)), MonitorTrade("SELL", NULL, N(90)),
    MonitorTrade("SELL", N(110), NULL) }

InitMonitor ==
  /\ isInitialized = TRUE
  /\ connections = [v \in Venues |-> TRUE]
  /\ portfolios = <<demoPortfolio>>
  /\ \E tradeData \in MonitorTrades :
       trades = Append(demoTrades, NewTrade([tradeData EXCEPT !.currentPrice = tradeData.entryPrice], 3))
  /\ currentTradeId = 4
  /\ marketData = demoMarketData
  /\ activities = Append(demoActivities, Activity(1, "TRADE_EXECUTED", EURUSD, "SUCCESS"))
  /\ calls = [c \in Slots |-> IdleCall]
  /\ ticks = 0
  /\ probes = 0
  /\ sweep = IdleSweep
  /\ indicators = demoIndicators
  /\ aiSignals = demoSignals
  /\ signalCall = IdleSignalCall

\* prices the feed publishes for EUR/USD while the monitor runs
MonitorFeedPrices == {N(90), N(110)}
publishPrice == createMarketDataFrom({EURUSD}, MonitorFeedPrices, FeedIndicators)

NextMonitor ==
  \/ publishPrice
  \/ updateOpenTrades
  \/ sweepLoop
  \/ sweepUpdateTrade
  \/ checkTradeExitConditions
  \/ sweepCloseReturned
  \/ \E tradeId \in TradeIdInputs : closeTrade(1, tradeId, 1)
  \/ \E c \in Slots : closeGetMarketData(c)
  \/ \E c \in Slots : brokerCloseTrade(c)
  \/ \E c \in Slots : storageCloseTrade(c)
  \/ \E c \in Slots : logTradeClosed(c)
  \/ \E c \in Slots : portfolioGet(c)
  \/ \E c \in Slots : portfolioCompute(c)
  \/ \E c \in Slots : portfolioSet(c)

SpecMonitor == InitMonitor /\ [][NextMonitor]_vars

\* ----------------------------------------------- the validator specification

\* Portfolios of user 1 after realized gains and losses: the demo portfolio,
\* a daily loss of exactly 5% and of 6%, a drawdown of exactly 15% and of
\* 16.7%, a daily loss together with a drawdown, and a daily gain of six
\* times the account value.
RiskPortfolio(totalValue, dailyPnL, totalPnL) ==
  Portfolio(1, 1, N(totalValue), N(25000), N(dailyPnL), N(totalPnL), <<5, 2>>)
RiskPortfolios ==
  { demoPortfolio,
    RiskPortfolio(100000, -5000, 0),
    RiskPortfolio(100000, -6000, 12850),
    RiskPortfolio(85000, 1450, -15000),
    RiskPortfolio(100000, 1450, -20000),
    RiskPortfolio(100000, -6000, -20000),
    RiskPortfolio(100000, 600000, 12850) }

\* a stored OPEN trade of user 1 of value 5000 (entry 100, quantity 50)
RiskTrade(id, symbol, type, stopLoss) ==
  Trade(id, 1, symbol, type, "OPEN", N(100), N(100), N(50), stopLoss, NULL, NULL, FALSE)

\* the demo trades once both have been closed
closedDemoTrades ==
  << ClosedTrade(demoTrades[1], N(102), N(20)), ClosedTrade(demoTrades[2], N(181), N(-5)) >>

\* Stores of trades: the demo trades; the demo trades CLOSED and three OPEN
\* trades risking 4000 + 4000 + 2000 (exactly 10% of 100000); those and one
\* more trade without stop (risking 2% of 5000); two trades risking
\* 4000 each with one trade with a zero stop and one without stop; and
\* stores with two EUR/USD among four FOREX trades, with three EUR/USD
\* trades, and with two EUR/USD among five FOREX trades.
RiskStores ==
  { demoTrades,
    closedDemoTrades \o << RiskTrade(3, GBPUSD, "BUY", N(20)), RiskTrade(4, AAPL, "BUY", N(20)),
                           RiskTrade(5, BTCUSD, "SELL", N(140)) >>,
    closedDemoTrades \o << RiskTrade(3, GBPUSD, "BUY", N(20)), RiskTrade(4, AAPL, "BUY", N(20)),
                           RiskTrade(5, BTCUSD, "SELL", N(140)), RiskTrade(6, GBPUSD, "BUY", NULL) >>,
    closedDemoTrades \o << RiskTrade(3, GBPUSD, "BUY", N(20)), RiskTrade(4, AAPL, "BUY", N(20)),
                           RiskTrade(5, BTCUSD, "SELL", N(0)), RiskTrade(6, GBPUSD, "BUY", NULL) >>,
    closedDemoTrades \o << RiskTrade(3, EURUSD, "BUY", N(90)), RiskTrade(4, EURUSD, "BUY", N(90)),
                           RiskTrade(5, GBPUSD, "BUY", N(90)), RiskTrade(6, GBPUSD, "BUY", N(90)) >>,
    closedDemoTrades \o << RiskTrade(3, EURUSD, "BUY", N(90)), RiskTrade(4, EURUSD, "BUY", N(90)),
                           RiskTrade(5, EURUSD, "BUY", N(90)) >>,
    closedDemoTrades \o << RiskTrade(3, EURUSD, "BUY", N(90)), RiskTrade(4, EURUSD, "BUY", N(90)),
                           RiskTrade(5, GBPUSD, "BUY", N(90)), RiskTrade(6, GBPUSD, "BUY", N(90)),
                           RiskTrade(7, GBPUSD, "BUY", N(90)) >> }

\* proposed trades of 1%, exactly 5% and 6% of a portfolio of 100000
RiskTradeInputs ==
  { baseTrade, [baseTrade EXCEPT !.quantity = N(50)], [baseTrade EXCEPT !.quantity = N(60)] }

InitRisk ==
  /\ isInitialized = TRUE
  /\ connections = [v \in Venues |-> TRUE]
  /\ \E portfolio \in RiskPortfolios : portfolios = <<portfolio>>
  /\ trades \in RiskStores
  /\ currentTradeId = Len(trades) + 1
  /\ marketData = demoMarketData
  /\ activities = demoActivities
  /\ calls = [c \in Slots |-> IdleCall]
  /\ ticks = 0
  /\ probes = 0
  /\ sweep = IdleSweep
  /\ indicators = demoIndicators
  /\ aiSignals = demoSignals
  /\ signalCall = IdleSignalCall

NextRisk ==
  \/ \E c \in CallIds, tradeData \in RiskTradeInputs : executeTrade(c, tradeData)
  \/ \E c \in CallIds : validateTrade(c)

SpecRisk == InitRisk /\ [][NextRisk]_vars

\* ------------------------------------------------ the signal specifications

\* indicator objects a feed publishes while signals are generated: all
\* present and neutral, a bullish and a bearish set, one without ema12, and
\* a row without indicators object
bullishIndicators ==
  Indicators(N(25), N(1), N(100), N(105), N(100), <<4001, 40>>, N(100), N(1), N(110), N(90))
bearishIndicators ==
  Indicators(N(75), N(1), N(95), N(100), N(102), <<3999, 40>>, N(100), N(-1), N(110), N(90))
SignalFeedIndicators ==
  { fullIndicators, bullishIndicators, bearishIndicators,
    [fullIndicators EXCEPT !.ema12 = NULL], NullIndicators,
    [bullishIndicators EXCEPT !.atr = <<1, 1000000>>] }
publishIndicators == createMarketDataFrom({EURUSD, GBPJPY}, {N(100)}, SignalFeedIndicators)

NextSignal ==
  \/ publishIndicators
  \/ \E symbol \in Symbols : generateSignal(symbol)
  \/ createAiSignal
  \/ logSignalGenerated

SpecSignal == Init /\ [][NextSignal]_vars

\* Sub-strategy outputs handed to combineSignals: a vote and a confidence
\* for each of the three models, in the order LSTM, XGBoost, CNN.
Vote(model, signal, confidence) ==
  Signal(EURUSD, signal, toString(N(confidence)), model, N(100),
         IF signal = "BUY" THEN N(98) ELSE IF signal = "SELL" THEN N(102) ELSE NULL,
         IF signal = "BUY" THEN N(103) ELSE IF signal = "SELL" THEN N(97) ELSE NULL,
         model)
VoteInputs ==
  { << Vote("LSTM", l[1], l[2]), Vote("XGBoost", x[1], x[2]), Vote("CNN", c[1], c[2]) >> :
      l \in {<<"BUY", 60>>, <<"BUY", 70>>, <<"BUY", 85>>, <<"SELL", 85>>, <<"HOLD", 50>>, <<"BUY", 175>>},
      x \in {<<"BUY", 60>>, <<"BUY", 65>>, <<"BUY", 78>>, <<"SELL", 75>>, <<"HOLD", 50>>, <<"SELL", 200>>},
      c \in {<<"BUY", 60>>, <<"BUY", 81>>, <<"SELL", 79>>, <<"HOLD", 50>>} }

\* one application of combineSignals
applyCombineSignals ==
  /\ \E signals \in VoteInputs :
       signalCall' = [IdleSignalCall EXCEPT !.pc = "combined", !.signals = signals,
                                            !.combined = combineSignals(signals)]
  /\ UNCHANGED <<isInitialized, connections, portfolios, trades, currentTradeId, marketData,
                 activities, calls, ticks, probes, sweep, indicators, aiSignals>>

NextEnsemble == applyCombineSignals

SpecEnsemble == Init /\ [][NextEnsemble]_vars

\* ----------------------------------------------- the portfolio specification

\* Portfolios of user 1 when the risk monitor runs: the demo portfolio, one
\* with a stored exposure of 9%, and one with that exposure and a daily loss
\* of 4.5%; the demo trades are closed by callers while the monitor runs.
RiskMonitorPortfolios ==
  { demoPortfolio,
    Portfolio(1, 1, N(100000), N(25000), N(1450), N(12850), N(9)),
    Portfolio(1, 1, N(100000), N(25000), N(-4500), N(12850), N(9)) }

InitPortfolio ==
  /\ isInitialized = TRUE
  /\ connections = [v \in Venues |-> TRUE]
  /\ \E portfolio \in RiskMonitorPortfolios : portfolios = <<portfolio>>
  /\ trades = demoTrades
  /\ currentTradeId = 3
  /\ marketData = demoMarketData
  /\ activities = demoActivities
  /\ calls = [c \in Slots |-> IdleCall]
  /\ ticks = 0
  /\ probes = 0
  /\ sweep = IdleSweep
  /\ indicators = demoIndicators
  /\ aiSignals = demoSignals
  /\ signalCall = IdleSignalCall

NextPortfolio ==
  \/ monitorPortfolioRisk
  \/ riskGetActiveTrades
  \/ riskCheckExposure
  \/ riskCheckDailyLoss
  \/ riskUpdatePortfolio
  \/ riskSetPortfolio
  \/ \E c \in CallIds, tradeId \in TradeIdInputs : closeTrade(c, tradeId, 1)
  \/ \E c \in CallIds : closeGetMarketData(c)
  \/ \E c \in CallIds : brokerCloseTrade(c)
  \/ \E c \in CallIds : storageCloseTrade(c)
  \/ \E c \in CallIds : logTradeClosed(c)
  \/ \E c \in CallIds : portfolioGet(c)
  \/ \E c \in CallIds : portfolioCompute(c)
  \/ \E c \in CallIds : portfolioSet(c)

SpecPortfolio == InitPortfolio /\ [][NextPortfolio]_vars

\* --------------------------------------------------- the venue specification

\* Trades on a forex pair, on a crypto pair written with a slash, on a crypto
\* pair written without one and on a stock, each in a whole and in a
\* fractional quantity; the engine is initialised and the venues are probed
\* while the trades run.
ETHUSDT == <<"ETH", "USDT">>
VenueSymbols == {EURUSD, BTCUSD, ETHUSDT, AAPL}
VenueTradeInputs ==
  { [baseTrade EXCEPT !.symbol = symbol, !.quantity = quantity] :
      symbol \in VenueSymbols, quantity \in {N(10), <<1, 2>>} }

NextVenue ==
  \/ Initialize
  \/ updateConnectionStatus
  \/ \E c \in CallIds, tradeData \in VenueTradeInputs : executeTrade(c, tradeData)
  \/ \E c \in CallIds : validateTrade(c)
  \/ \E c \in CallIds : brokerExecuteTrade(c)
  \/ \E c \in CallIds : createTrade(c)
  \/ \E c \in CallIds : logTradeExecuted(c)
  \/ \E c \in CallIds : portfolioGet(c)
  \/ \E c \in CallIds : portfolioCompute(c)
  \/ \E c \in CallIds : portfolioSet(c)

SpecVenue == Init /\ [][NextVenue]_vars



\* ------------------------------------------------------------------ claims

NoEffects(call) ==
  /\ call.nExecute = 0
  /\ call.nVenueClose = 0
  /\ call.nTradeWrites = 0
  /\ call.nAudit = 0
  /\ call.nPortfolioWrites = 0

StoresUnchanged == UNCHANGED <<portfolios, trades, currentTradeId, activities>>

\* the call c takes a step
Steps(c) == calls'[c] # calls[c]

\* C1: two closeTrade calls on the same trade id and owner that have both
\* returned have not both succeeded: between them the trade was written at
\* most once and the portfolio was written at most once.
C1_DoubleCloseIdempotent ==
  \A a, b \in CallIds :
    ( /\ a # b
      /\ calls[a].kind = "close" /\ calls[b].kind = "close"
      /\ calls[a].tradeId = calls[b].tradeId /\ calls[a].userId = calls[b].userId
      /\ calls[a].pc = "done" /\ calls[b].pc = "done" )
    => ( /\ ~(calls[a].result = "Success" /\ calls[b].result = "Success")
         /\ calls[a].nTradeWrites + calls[b].nTradeWrites <= 1
         /\ calls[a].nPortfolioWrites + calls[b].nPortfolioWrites <= 1 )

RECURSIVE SumClosedPnl(_)
SumClosedPnl(ts) ==
  IF ts = <<>> THEN N(0)
  ELSE LET n == Len(ts)
           rest == SumClosedPnl(SubSeq(ts, 1, n - 1))
       IN  IF ts[n].status = "CLOSED" THEN NumAdd(rest, parseFloat(ts[n].pnl)) ELSE rest

AllClosesReturned ==
  /\ \A c \in CallIds : calls[c].kind = "close" /\ calls[c].pc = "done"
  /\ \A a, b \in CallIds : a # b => calls[a].tradeId # calls[b].tradeId

\* C2: once concurrent closeTrade calls on distinct positions of one owner
\* have all returned, totalValue, dailyPnL and totalPnL each equal their
\* initial value plus the realized P&L of every position that became CLOSED.
C2_NoLostPortfolioDelta ==
  AllClosesReturned =>
    LET sum == SumClosedPnl(trades)
        portfolio == getPortfolio(1)
    IN  /\ parseFloat(portfolio.totalValue) = NumAdd(parseFloat(demoPortfolio.totalValue), sum)
        /\ parseFloat(portfolio.dailyPnL) = NumAdd(parseFloat(demoPortfolio.dailyPnL), sum)
        /\ parseFloat(portfolio.totalPnL) = NumAdd(parseFloat(demoPortfolio.totalPnL), sum)

Malformed(tradeData) ==
  IsNaN(parseFloat(tradeData.entryPrice)) \/ IsNaN(parseFloat(tradeData.quantity))

\* C3: a proposed trade whose entry price or quantity does not parse to a
\* number is never approved by validateTrade.
C3_FailClosedValidation ==
  \A c \in CallIds :
    (calls[c].kind = "open" /\ calls[c].riskCheck.reason # "" /\ Malformed(calls[c].tradeData))
    => ~calls[c].riskCheck.allowed

StopTargetOnRightSide(trade) ==
  LET entryPrice == parseFloat(trade.entryPrice)
  IN  /\ Truthy(trade.stopLoss) =>
           IF trade.type = "BUY" THEN NumLt(parseFloat(trade.stopLoss), entryPrice)
           ELSE NumGt(parseFloat(trade.stopLoss), entryPrice)
      /\ Truthy(trade.takeProfit) =>
           IF trade.type = "BUY" THEN NumGt(parseFloat(trade.takeProfit), entryPrice)
           ELSE NumLt(parseFloat(trade.takeProfit), entryPrice)

\* C4: every stored trade whose prices are numbers has its stop on the losing
\* side and its target on the winning side of its entry price.
C4_StopTargetSides ==
  \A i \in 1..Len(trades) :
    IsFinite(parseFloat(trades[i].entryPrice)) => StopTargetOnRightSide(trades[i])

\* C5: an executeTrade call whose validation returned allowed = false goes no
\* further than the veto: it ends as RiskRejected with the validator's reason
\* as its error and has made no venue call, trade write, audit record or
\* portfolio write.
C5_RiskRejectedOpen ==
  \A c \in CallIds :
    (calls[c].kind = "open" /\ calls[c].riskCheck.reason # "" /\ ~calls[c].riskCheck.allowed)
    => /\ calls[c].pc \in {"execute", "done"}
       /\ calls[c].pc = "done" =>
            (calls[c].result = "RiskRejected" /\ calls[c].error = calls[c].riskCheck.reason)
       /\ NoEffects(calls[c])

C5_Witness ==
  \E c \in CallIds :
    /\ calls[c].kind = "open" /\ calls[c].pc = "done" /\ calls[c].result = "RiskRejected"
    /\ calls[c].error = "Position size exceeds maximum allowed"

\* C6: an approved executeTrade call that reaches the venue while the venue
\* selected for its symbol is disconnected ends right there as
\* VenueUnavailable, after that single execute attempt, with no trade,
\* audit record or portfolio write; and every VenueUnavailable outcome is of
\* that kind.
C6_VenueUnavailableOpen ==
  /\ [](\A c \in CallIds :
          calls[c].result = "VenueUnavailable"
          => /\ calls[c].nExecute = 1 /\ calls[c].nTradeWrites = 0
             /\ calls[c].nAudit = 0 /\ calls[c].nPortfolioWrites = 0
             /\ calls[c].pc = "done" /\ calls[c].riskCheck.allowed)
  /\ [][\A c \in CallIds :
          ( /\ calls[c].kind = "open" /\ calls[c].pc = "execute" /\ Steps(c)
            /\ calls[c].riskCheck.allowed
            /\ ~connections[selectBroker(calls[c].tradeData.symbol)] )
          => (calls'[c].result = "VenueUnavailable" /\ calls'[c].nExecute = 1 /\ StoresUnchanged)]_vars

C6_Witness ==
  \E c \in CallIds :
    /\ calls[c].kind = "open" /\ calls[c].pc = "done" /\ calls[c].result = "VenueUnavailable"
    /\ calls[c].tradeData.symbol = AAPL

\* C7: the trade returned by a successful executeTrade has status OPEN and
\* entry and current price equal to the executed price.
C7_OpenedTradeIsOpen ==
  \A c \in CallIds :
    (calls[c].kind = "open" /\ calls[c].result = "Success")
    => /\ calls[c].trade.status = "OPEN"
       /\ calls[c].trade.entryPrice = toString(calls[c].executedPrice)
       /\ calls[c].trade.currentPrice = toString(calls[c].executedPrice)

\* C8: the portfolio write that ends a successful executeTrade leaves
\* totalValue, dailyPnL and totalPnL as they were.
C8_OpenLeavesPortfolio ==
  [][\A c \in CallIds :
       (calls[c].kind = "open" /\ calls[c].pc = "pf_set" /\ Steps(c))
       => LET before == getPortfolio(calls[c].userId)
              after == getPortfolio(calls[c].userId)'
          IN  /\ after.totalValue = before.totalValue
              /\ after.dailyPnL = before.dailyPnL
              /\ after.totalPnL = before.totalPnL]_vars

ExistsOpenTrade(tradeId, userId) ==
  \E i \in 1..Len(trades) :
    trades[i].id = tradeId /\ trades[i].userId = userId /\ trades[i].status = "OPEN"

\* C9: a closeTrade call invoked when no OPEN trade with its id exists for
\* its owner finds none, fails with NotFound at its next step, and has made
\* no venue call, trade write, audit record or portfolio write; a call
\* invoked when such a trade exists finds it.
C9_CloseNotFound ==
  /\ [](\A c \in CallIds :
          (calls[c].kind = "close" /\ calls[c].trade = NoTrade)
          => /\ calls[c].pc \in {"market", "done"}
             /\ calls[c].pc = "done" => calls[c].result = "NotFound"
             /\ NoEffects(calls[c]))
  /\ [](\A c \in CallIds : calls[c].result = "NotFound" => calls[c].trade = NoTrade)
  /\ [][\A c \in CallIds :
          (calls[c].kind = "idle" /\ calls'[c].kind = "close")
          => ((calls'[c].trade = NoTrade) <=> ~ExistsOpenTrade(calls'[c].tradeId, calls'[c].userId))]_vars

C9_Witness ==
  \E c \in CallIds :
    /\ calls[c].kind = "close" /\ calls[c].result = "NotFound"
    /\ calls[c].tradeId \in 1..Len(trades)
    /\ trades[calls[c].tradeId].userId = calls[c].userId
    /\ trades[calls[c].tradeId].status = "CLOSED"

\* C10: a closeTrade call that found its OPEN trade and then reads no market
\* data for the trade's symbol fails with DataUnavailable at its next step;
\* the call has written no trade or portfolio and produced no venue close or
\* audit record.
C10_CloseDataUnavailable ==
  /\ [](\A c \in CallIds :
          calls[c].result = "DataUnavailable"
          => (calls[c].kind = "close" /\ calls[c].trade # NoTrade /\ NoEffects(calls[c])))
  /\ [][\A c \in CallIds :
          /\ ( /\ calls[c].kind = "close" /\ calls[c].pc = "market" /\ Steps(c)
               /\ calls[c].trade # NoTrade
               /\ getMarketData(calls[c].trade.symbol) = NULL )
             => (calls'[c].pc = "broker" /\ calls'[c].closePrice = NULL /\ StoresUnchanged)
          /\ ( /\ calls[c].kind = "close" /\ calls[c].pc = "broker" /\ Steps(c)
               /\ calls[c].closePrice = NULL )
             => (calls'[c].result = "DataUnavailable" /\ StoresUnchanged)]_vars

C10_Witness ==
  \E c \in CallIds :
    /\ calls[c].kind = "close" /\ calls[c].result = "DataUnavailable"
    /\ trades[calls[c].tradeId].status = "OPEN"
    /\ trades[calls[c].tradeId] = calls[c].trade

\* C11: a closeTrade call that succeeds stores the trade as CLOSED at the
\* price it read from the market data, with realized P&L
\* (close - entry) * quantity for a BUY and (entry - close) * quantity for a
\* SELL, and its portfolio write adds exactly that P&L to totalValue,
\* dailyPnL and totalPnL and leaves availableBalance and riskExposure as
\* they were.
C11_CloseAccounting ==
  [][\A c \in CallIds :
       /\ (calls[c].kind = "close" /\ calls[c].pc = "store" /\ Steps(c)
             /\ calls[c].tradeId \in 1..Len(trades))
          => LET before == trades[calls[c].tradeId]
                 after == trades'[calls[c].tradeId]
             IN  /\ after.status = "CLOSED"
                 /\ after.currentPrice = toString(calls[c].closePrice)
                 /\ after.pnl = toString(ClosePnl(before, calls[c].closePrice))
       /\ (calls[c].kind = "close" /\ calls[c].pc = "pf_set" /\ Steps(c))
          => LET before == getPortfolio(calls[c].userId)
                 after == getPortfolio(calls[c].userId)'
                 pnl == parseFloat(calls[c].trade.pnl)
             IN  /\ parseFloat(after.totalValue) = NumAdd(parseFloat(before.totalValue), pnl)
                 /\ parseFloat(after.dailyPnL) = NumAdd(parseFloat(before.dailyPnL), pnl)
                 /\ parseFloat(after.totalPnL) = NumAdd(parseFloat(before.totalPnL), pnl)
                 /\ after.availableBalance = before.availableBalance
                 /\ after.riskExposure = before.riskExposure]_vars

\* C13: a closeTrade call that reaches the venue while the venue selected
\* for its trade's symbol is disconnected fails there with VenueUnavailable,
\* and the trade and the portfolio stay as they were.
C13_VenueCloseDisconnected ==
  [][\A c \in CallIds :
       ( /\ calls[c].kind = "close" /\ calls[c].pc = "broker" /\ Steps(c)
         /\ calls[c].closePrice # NULL
         /\ isInitialized
         /\ ~connections[selectBroker(calls[c].trade.symbol)] )
       => (calls'[c].result = "VenueUnavailable" /\ StoresUnchanged)]_vars

\* C12: a trade that is CLOSED is never changed again (status, close price,
\* realized P&L and closing mark stay as they are), and no trade ever leaves
\* the store or changes its id.
C12_ClosedIsTerminal ==
  [][/\ Len(trades') >= Len(trades)
     /\ \A i \in 1..Len(trades) :
          /\ trades'[i].id = trades[i].id
          /\ trades[i].status = "CLOSED" => trades'[i] = trades[i]]_vars

\* the whole units of a price that is a whole number
Units(x) == x[1]

StopHit(trade, current) ==
  /\ trade.stopLoss # NULL
  /\ \/ trade.type = "BUY" /\ Units(current) <= Units(trade.stopLoss)
     \/ trade.type = "SELL" /\ Units(current) >= Units(trade.stopLoss)

TargetHit(trade, current) ==
  /\ trade.takeProfit # NULL
  /\ \/ trade.type = "BUY" /\ Units(current) >= Units(trade.takeProfit)
     \/ trade.type = "SELL" /\ Units(current) <= Units(trade.takeProfit)

\* C18: when the monitor evaluates the exit conditions of a trade of its
\* snapshot at the price it read, it invokes closeTrade for that trade with
\* reason Stop Loss if the stop is set and hit (BUY: price <= stop, SELL:
\* price >= stop), else with reason Take Profit if the target is set and hit
\* (BUY: price >= target, SELL: price <= target), and otherwise invokes no
\* close; a stop that is hit wins over a target that is hit.
C18_MonitorExitRule ==
  [][(sweep.pc = "exit" /\ sweep' # sweep)
     => LET trade == sweep.openTrades[sweep.i]
            current == sweep.currentPrice
            expected == IF StopHit(trade, current) THEN "Stop Loss"
                        ELSE IF TargetHit(trade, current) THEN "Take Profit"
                        ELSE ""
        IN  /\ current[2] = 1
            /\ IF expected = ""
               THEN sweep'.pc # "closing" /\ calls' = calls
               ELSE /\ sweep'.pc = "closing"
                    /\ sweep'.reason = expected
                    /\ calls'[MonitorCall].kind = "close"
                    /\ calls'[MonitorCall].tradeId = trade.id
                    /\ calls'[MonitorCall].userId = trade.userId]_vars

C18_Witness ==
  /\ sweep.pc = "closing"
  /\ sweep.reason = "Stop Loss"
  /\ LET trade == sweep.openTrades[sweep.i]
     IN  /\ trade.type = "BUY"
         /\ trade.stopLoss # NULL /\ trade.takeProfit # NULL
         /\ Units(sweep.currentPrice) <= Units(trade.stopLoss)
         /\ Units(sweep.currentPrice) >= Units(trade.takeProfit)

\* the call c has been through validateTrade with a portfolio
Validated(c) ==
  calls[c].kind = "open" /\ calls[c].riskCheck.reason \notin {"", "Portfolio not found"}

SizeReason == "Position size exceeds maximum allowed"
ExposureReason == "Total risk exposure exceeds maximum allowed"
DailyLossReason == "Daily loss exceeds maximum allowed"
DrawdownReason == "Current drawdown exceeds maximum allowed"

\* C14: the result of validateTrade is the result of the first check that
\* fails, in the order position size, total exposure, daily loss, drawdown,
\* concentration; it is an approval only when no check fails. (The
\* portfolio and the trades do not change under SpecRisk, so the stored
\* ones are those the call read.)
C14_ValidatorCheckOrder ==
  \A c \in CallIds :
    Validated(c) =>
      LET tradeData == calls[c].tradeData
          portfolio == getPortfolio(calls[c].userId)
          activeTrades == getActiveTrades(calls[c].userId)
          size == checkPositionSize(tradeData, portfolio)
          exposure == checkTotalRiskExposure(activeTrades, portfolio)
          daily == checkDailyLoss(portfolio)
          drawdown == checkDrawdown(portfolio)
          correlation == checkCorrelation(tradeData, activeTrades)
      IN  IF ~size.allowed THEN calls[c].riskCheck = size
          ELSE IF ~exposure.allowed THEN calls[c].riskCheck = exposure
          ELSE IF ~daily.allowed THEN calls[c].riskCheck = daily
          ELSE IF ~drawdown.allowed THEN calls[c].riskCheck = drawdown
          ELSE IF ~correlation.allowed THEN calls[c].riskCheck = correlation
          ELSE calls[c].riskCheck.allowed /\ calls[c].riskCheck.reason = "Trade approved"

C14_Witness ==
  \E c \in CallIds :
    /\ Validated(c)
    /\ ~checkPositionSize(calls[c].tradeData, getPortfolio(1)).allowed
    /\ ~checkDailyLoss(getPortfolio(1)).allowed
    /\ calls[c].riskCheck.reason = SizeReason
    /\ calls[c].riskCheck.riskScore = N(12)

\* C15: validateTrade rejects for position size exactly when
\* entryPrice * quantity * 100 > 5 * totalValue (a trade of exactly 5% is
\* not rejected for size), and the riskScore of that rejection is twice the
\* percentage, 200 * entryPrice * quantity / totalValue.
C15_PositionSizeRule ==
  \A c \in CallIds :
    Validated(c) =>
      LET entryPrice == Units(calls[c].tradeData.entryPrice)
          quantity == Units(calls[c].tradeData.quantity)
          totalValue == Units(getPortfolio(calls[c].userId).totalValue)
          over == entryPrice * quantity * 100 > 5 * totalValue
      IN  /\ totalValue > 0
          /\ (calls[c].riskCheck.reason = SizeReason) <=> over
          /\ over => /\ ~calls[c].riskCheck.allowed
                     /\ calls[c].riskCheck.riskScore = Norm(200 * entryPrice * quantity, totalValue)

C15_Witness ==
  \E a, b \in CallIds :
    /\ Validated(a) /\ Validated(b)
    /\ calls[a].tradeData.quantity = N(60) /\ getPortfolio(1).totalValue = N(100000)
    /\ calls[a].riskCheck = RiskCheck(FALSE, SizeReason, N(12))
    /\ calls[b].tradeData.quantity = N(50)
    /\ calls[b].riskCheck.reason # SizeReason

\* 100 times the money a stored trade puts at risk: 100 * quantity *
\* |entry - stop| with a stop, 2% of entry * quantity with no stop or a zero
\* stop
Risk100(trade) ==
  IF trade.stopLoss = NULL \/ trade.stopLoss = N(0)
  THEN 2 * Units(trade.entryPrice) * Units(trade.quantity)
  ELSE 100 * Units(trade.quantity) * AbsInt(Units(trade.entryPrice) - Units(trade.stopLoss))

RECURSIVE OpenRisk100(_, _)
OpenRisk100(ts, userId) ==
  IF ts = <<>> THEN 0
  ELSE (IF Head(ts).status = "OPEN" /\ Head(ts).userId = userId THEN Risk100(Head(ts)) ELSE 0)
         + OpenRisk100(Tail(ts), userId)

\* C19: validateTrade rejects for total exposure exactly when the position
\* size check passes and the money at risk in the owner's stored OPEN
\* trades exceeds 10% of totalValue; the proposed trade is not in the sum.
C19_ExposureRule ==
  \A c \in CallIds :
    Validated(c) =>
      LET totalValue == Units(getPortfolio(calls[c].userId).totalValue)
          over == OpenRisk100(trades, calls[c].userId) > 10 * totalValue
      IN  /\ checkTotalRiskExposure(getActiveTrades(calls[c].userId), getPortfolio(calls[c].userId)).allowed
               <=> ~over
          /\ (calls[c].riskCheck.reason = ExposureReason)
               <=> (over /\ checkPositionSize(calls[c].tradeData, getPortfolio(calls[c].userId)).allowed)

C19_Witness ==
  \E a \in CallIds :
    /\ Validated(a)
    /\ calls[a].riskCheck.reason = ExposureReason
    /\ \E i \in 1..Len(trades) : trades[i].status = "OPEN" /\ trades[i].stopLoss = NULL
    /\ \E i \in 1..Len(trades) : trades[i].status = "CLOSED"

\* C20: the drawdown check rejects exactly when totalPnL < 0 and
\* -totalPnL * 100 > 15 * (totalValue - totalPnL), so never when
\* totalPnL >= 0; validateTrade rejects for drawdown exactly when that holds
\* and the three earlier checks pass.
C20_DrawdownRule ==
  \A c \in CallIds :
    Validated(c) =>
      LET portfolio == getPortfolio(calls[c].userId)
          totalValue == Units(portfolio.totalValue)
          totalPnL == Units(portfolio.totalPnL)
          peakValue == totalValue - totalPnL + (IF totalPnL > 0 THEN totalPnL ELSE 0)
          over == (peakValue - totalValue) * 100 > 15 * peakValue
          earlier == /\ checkPositionSize(calls[c].tradeData, portfolio).allowed
                     /\ checkTotalRiskExposure(getActiveTrades(calls[c].userId), portfolio).allowed
                     /\ checkDailyLoss(portfolio).allowed
      IN  /\ peakValue > 0
          /\ totalPnL >= 0 => ~over
          /\ checkDrawdown(portfolio).allowed <=> ~over
          /\ (calls[c].riskCheck.reason = DrawdownReason) <=> (over /\ earlier)

C20_Witness ==
  \E a \in CallIds :
    /\ Validated(a)
    /\ calls[a].riskCheck.reason = DrawdownReason
    /\ getPortfolio(1).totalPnL = N(-20000)

\* 100 times the weighted confidence of the sub-strategies voting for a
\* direction, the three being LSTM, XGBoost and CNN in this order
Mass100(signals, direction) ==
  (IF signals[1].signal = direction THEN 40 * Units(signals[1].confidence) ELSE 0)
  + (IF signals[2].signal = direction THEN 35 * Units(signals[2].confidence) ELSE 0)
  + (IF signals[3].signal = direction THEN 25 * Units(signals[3].confidence) ELSE 0)

\* C16: combineSignals gives BUY exactly when the BUY mass
\* (0.40 / 0.35 / 0.25 times the confidences of the models voting BUY) is
\* greater than the SELL mass and greater than 60, SELL exactly when the
\* SELL mass is greater than the BUY mass and greater than 60, and HOLD in
\* every other case, a tie and a mass of exactly 60 included.
C16_EnsembleRule ==
  signalCall.pc = "combined" =>
    LET long == Mass100(signalCall.signals, "BUY")
        short == Mass100(signalCall.signals, "SELL")
    IN  /\ (signalCall.combined.signal = "BUY") <=> (long > short /\ long > 6000)
        /\ (signalCall.combined.signal = "SELL") <=> (short > long /\ short > 6000)
        /\ (signalCall.combined.signal = "HOLD") <=> ~(long > short /\ long > 6000)
                                                      /\ ~(short > long /\ short > 6000)

C16_Witness ==
  /\ signalCall.pc = "combined"
  /\ signalCall.signals[1].signal = "BUY" /\ signalCall.signals[1].confidence = N(70)
  /\ signalCall.signals[2].signal = "BUY" /\ signalCall.signals[2].confidence = N(65)
  /\ signalCall.signals[3].signal = "HOLD"
  /\ Mass100(signalCall.signals, "BUY") = 5075
  /\ signalCall.combined.signal = "HOLD"

RequiredIndicators(row) ==
  { row.rsi, row.atr, row.support, row.resistance, row.sma20, row.ema12, row.ema26, row.macd,
    row.bollinger_upper, row.bollinger_lower }

\* C17: a generateSignal call that read no market data row, or a row in
\* which an indicator the sub-strategies use is missing, ends in an error
\* (DataUnavailable when the row is missing) and has stored no signal and
\* written no audit record.
C17_SignalDataUnavailable ==
  (signalCall.pc \in {"models", "log", "done"}
     /\ (signalCall.price = NULL \/ NULL \in RequiredIndicators(signalCall.indicators)))
  => /\ signalCall.pc \in {"models", "done"}
     /\ signalCall.pc = "done" =>
          /\ signalCall.result # "Success"
          /\ signalCall.price = NULL => signalCall.result = "DataUnavailable"
     /\ signalCall.nStored = 0
     /\ signalCall.nAudit = 0

\* the asset category the claim gives a symbol
Category(symbol) ==
  LET tokens == {symbol[i] : i \in 1..Len(symbol)}
  IN  IF tokens \cap {"BTC", "ETH", "USDT"} # {} THEN "CRYPTO"
      ELSE IF "/" \in tokens THEN "FOREX"
      ELSE "STOCKS"

OpenOf(userId) == {i \in 1..Len(trades) : trades[i].userId = userId /\ trades[i].status = "OPEN"}

\* C21: validateTrade rejects a proposed trade whose owner has 3 or more
\* OPEN trades on its symbol, or 5 or more OPEN trades of its asset
\* category; with fewer of both the concentration check passes, and a
\* rejection for concentration is given exactly then and when the four
\* earlier checks pass.
C21_ConcentrationRule ==
  \A c \in CallIds :
    Validated(c) =>
      LET tradeData == calls[c].tradeData
          portfolio == getPortfolio(calls[c].userId)
          activeTrades == getActiveTrades(calls[c].userId)
          sameSymbol == Cardinality({i \in OpenOf(calls[c].userId) : trades[i].symbol = tradeData.symbol})
          sameCategory == Cardinality({i \in OpenOf(calls[c].userId) :
                                         Category(trades[i].symbol) = Category(tradeData.symbol)})
          over == sameSymbol >= 3 \/ sameCategory >= 5
          earlier == /\ checkPositionSize(tradeData, portfolio).allowed
                     /\ checkTotalRiskExposure(activeTrades, portfolio).allowed
                     /\ checkDailyLoss(portfolio).allowed
                     /\ checkDrawdown(portfolio).allowed
      IN  /\ checkCorrelation(tradeData, activeTrades).allowed <=> ~over
          /\ over => ~calls[c].riskCheck.allowed
          /\ (calls[c].riskCheck.reason \in {"Too many open positions in symbol",
                                             "Too many open positions in category"})
               <=> (over /\ earlier)
          /\ (calls[c].riskCheck.reason = "Too many open positions in symbol") => sameSymbol >= 3
          /\ (calls[c].riskCheck.reason = "Too many open positions in category")
               => (sameSymbol < 3 /\ sameCategory >= 5)

C21_Witness ==
  \E c \in CallIds :
    /\ Validated(c)
    /\ calls[c].riskCheck.reason = "Too many open positions in symbol"
    /\ Cardinality({i \in OpenOf(1) : trades[i].symbol = calls[c].tradeData.symbol}) = 3
    /\ \E i \in 1..Len(trades) : trades[i].status = "CLOSED" /\ trades[i].symbol = calls[c].tradeData.symbol

\* the five checks of the validator all pass for the validated call c
AllChecksPass(c) ==
  LET tradeData == calls[c].tradeData
      portfolio == getPortfolio(calls[c].userId)
      activeTrades == getActiveTrades(calls[c].userId)
  IN  /\ checkPositionSize(tradeData, portfolio).allowed
      /\ checkTotalRiskExposure(activeTrades, portfolio).allowed
      /\ checkDailyLoss(portfolio).allowed
      /\ checkDrawdown(portfolio).allowed
      /\ checkCorrelation(tradeData, activeTrades).allowed

\* ten times the blend 0.3 size + 0.3 exposure + 0.2 daily loss + 0.2
\* concentration of the checks' scores
Blend10(c) ==
  LET tradeData == calls[c].tradeData
      portfolio == getPortfolio(calls[c].userId)
      activeTrades == getActiveTrades(calls[c].userId)
      size == checkPositionSize(tradeData, portfolio).riskScore
      exposure == checkTotalRiskExposure(activeTrades, portfolio).riskScore
      dailyLoss == checkDailyLoss(portfolio).riskScore
      concentration == checkCorrelation(tradeData, activeTrades).riskScore
  IN  NumAdd(NumAdd(NumMul(N(3), NumAdd(size, exposure)), NumMul(N(2), dailyLoss)),
             NumMul(N(2), concentration))

\* C22: whenever all five checks pass, validateTrade answers allowed = TRUE
\* with riskScore = 0.3 size + 0.3 exposure + 0.2 daily loss + 0.2
\* concentration, whatever its magnitude; and the validation step writes
\* nothing to the portfolio store or the trade store.
C22_RiskScoreNeverGates ==
  /\ [](\A c \in CallIds :
          (Validated(c) /\ AllChecksPass(c)) =>
            /\ calls[c].riskCheck.allowed
            /\ calls[c].riskCheck.reason = "Trade approved"
            /\ NumMul(N(10), calls[c].riskCheck.riskScore) = Blend10(c))
  /\ [][\A c \in CallIds : (calls[c].pc = "validate" /\ Steps(c)) => UNCHANGED <<portfolios, trades, currentTradeId>>]_vars

C22_Witness ==
  \E c \in CallIds :
    /\ Validated(c) /\ AllChecksPass(c)
    /\ calls[c].riskCheck.allowed
    /\ NumGt(calls[c].riskCheck.riskScore, N(100))

\* the venue the claim gives a symbol
VenueOf(symbol) ==
  LET tokens == {symbol[i] : i \in 1..Len(symbol)}
  IN  IF tokens \cap {"BTC", "ETH", "USDT"} # {} THEN "binance"
      ELSE IF "/" \in tokens THEN "capital_com"
      ELSE "metatrader"

\* C23: BrokerAPI.executeTrade uses the venue its symbol alone selects
\* (BTC, ETH or USDT: binance, before the slash rule; else a slash:
\* capital_com; else metatrader); it fails exactly when that venue is
\* disconnected, whatever the health of the other venues; and when it
\* succeeds its executedQuantity is the requested quantity.
C23_VenueSelection ==
  [][\A c \in CallIds :
       (calls[c].pc = "execute" /\ calls[c].riskCheck.allowed /\ Steps(c)) =>
         LET venue == VenueOf(calls[c].tradeData.symbol)
             failed == calls'[c].pc = "done"
         IN  /\ calls'[c].nExecute = 1
             /\ calls'[c].broker = venue
             /\ failed <=> ~connections[venue]
             /\ failed => calls'[c].result = "VenueUnavailable"
             /\ ~failed => calls'[c].executedQuantity = calls[c].tradeData.quantity]_vars

C23_Witness ==
  \E c, d \in CallIds :
    /\ calls[c].broker = "binance" /\ "/" \in {calls[c].tradeData.symbol[i] : i \in 1..Len(calls[c].tradeData.symbol)}
    /\ calls[c].executedQuantity = <<1, 2>>
    /\ calls[c].result = "Success"
    /\ calls[d].broker = "metatrader" /\ calls[d].result = "VenueUnavailable"
    /\ connections["capital_com"] /\ connections["binance"]

\* C24: the signal combineSignals returns takes its entry price, stop, target
\* and expiry from the first sub-strategy's signal (LSTM) for every
\* combination of votes, also when LSTM voted HOLD (no stop, no target) or
\* against the direction of the result.
C24_FirstSignalInheritance ==
  signalCall.pc = "combined" =>
    LET first == signalCall.signals[1]
        combined == signalCall.combined
    IN  /\ first.model = "LSTM"
        /\ combined.entryPrice = first.entryPrice
        /\ combined.stopLoss = first.stopLoss
        /\ combined.takeProfit = first.takeProfit
        /\ combined.expiresAt = first.expiresAt
        /\ combined.expiresAt = "LSTM"
        /\ first.signal = "HOLD" => (combined.stopLoss = NULL /\ combined.takeProfit = NULL)

C24_Witness ==
  /\ signalCall.pc = "combined"
  /\ signalCall.combined.signal = "SELL"
  /\ signalCall.signals[1].signal = "HOLD"
  /\ signalCall.signals[3].signal = "SELL"
  /\ signalCall.combined.stopLoss = NULL
  /\ signalCall.signals[3].stopLoss # NULL

\* C25: when the monitor finds no price for the OPEN position in hand, it
\* leaves the position as it is (no price or P&L update, no exit test, no
\* close), raises no error and goes on with the next position of the sweep.
C25_MonitorSkipsMissingPrice ==
  [][(sweep.pc = "update" /\ sweep.currentPrice = NULL /\ sweep' # sweep) =>
       /\ trades' = trades
       /\ portfolios' = portfolios
       /\ activities' = activities
       /\ calls'[MonitorCall] = calls[MonitorCall]
       /\ sweep'.error = ""
       /\ sweep'.openTrades = sweep.openTrades
       /\ sweep'.i = sweep.i + 1
       /\ sweep'.pc = (IF sweep.i < Len(sweep.openTrades) THEN "update" ELSE "done")]_vars

C25_Witness ==
  /\ sweep.pc = "exit"
  /\ \E j \in 1..(sweep.i - 1) :
       /\ getMarketData(sweep.openTrades[j].symbol) = NULL
       /\ trades[sweep.openTrades[j].id] = sweep.openTrades[j]
       /\ trades[sweep.openTrades[j].id].status = "OPEN"

\* C26: whenever the monitor has closed a position for an exit condition,
\* the reason (Stop Loss or Take Profit) is recorded in the audit sink, in
\* the close's record or in another.
C26_MonitorCloseReasonAudited ==
  (/\ sweep.pc = "closing"
   /\ calls[MonitorCall].pc = "done"
   /\ calls[MonitorCall].result = "Success") =>
    /\ sweep.reason \in {"Stop Loss", "Take Profit"}
    /\ \E i \in 1..Len(activities) : sweep.reason \in ActivityText(activities[i])

\* C27: when a monitor sweep has ended, every position that was OPEN at its
\* start and has a price was visited by it (price and P&L written, exits
\* tested), also when the close of an earlier position of the sweep failed.
C27_MonitorCoverage ==
  (sweep.pc = "done" /\ sweep.n > 0) =>
    \A j \in 1..Len(sweep.openTrades) :
      getMarketData(sweep.openTrades[j].symbol) # NULL => j <= sweep.i

\* C28: the portfolio record is written only by TradingEngine, in the
\* portfolio update that follows an open or a close; no other component or
\* timer writes it, the validator's periodic risk monitor included.
C28_PortfolioSingleWriter ==
  [][portfolios' # portfolios =>
       \E c \in CallIds \cup {MonitorCall} :
         /\ calls[c].kind \in {"open", "close"}
         /\ calls[c].pc = "pf_set"
         /\ Steps(c)]_vars

\* C29: once the venues are initialised, a run of the health probe can move
\* each of the three venues from connected to disconnected and from
\* disconnected to connected; and the health records are changed only by
\* the initialisation and the probe, never by an execute or a close.
C29_VenueHealthTransitions ==
  /\ [](isInitialized /\ probes < MaxProbes =>
          \A v \in Venues : ENABLED (updateConnectionStatus /\ connections'[v] = ~connections[v]))
  /\ [][connections' # connections =>
          \/ ~isInitialized /\ isInitialized'
          \/ probes' = probes + 1]_vars

\* C29 as amended: a run of the health probe can move MetaTrader from
\* connected to disconnected and from disconnected to connected; Capital.com
\* and Binance are connected from the initialisation on and no probe
\* disconnects them; and the health records are changed only by the
\* initialisation and the probe, never by an execute or a close.
C29_MetaTraderHealthTransitions ==
  /\ [](isInitialized /\ probes < MaxProbes =>
          ENABLED (updateConnectionStatus /\ connections'["metatrader"] = ~connections["metatrader"]))
  /\ [](isInitialized => connections["capital_com"] /\ connections["binance"])
  /\ [][connections' # connections =>
          \/ ~isInitialized /\ isInitialized'
          \/ probes' = probes + 1]_vars

C29_Witness ==
  /\ isInitialized
  /\ probes > 0
  /\ ~connections["metatrader"]
  /\ connections["capital_com"] /\ connections["binance"]
  /\ \E c \in CallIds :
       calls[c].kind = "open" /\ calls[c].broker = "metatrader" /\ calls[c].result = "Success"
  /\ \E c \in CallIds : calls[c].kind = "close" /\ calls[c].nVenueClose = 1

\* the signal generateSignal has emitted is LONG or SHORT
Emitted ==
  /\ signalCall.pc \in {"log", "done"}
  /\ signalCall.nStored = 1
  /\ signalCall.combined.signal # "HOLD"

\* the row of the call has an ATR > 0 and its price is a number
PositiveAtr ==
  /\ IsFinite(parseFloat(signalCall.price))
  /\ signalCall.indicators.atr[2] > 0 /\ signalCall.indicators.atr[1] > 0

\* C30: whenever the ensemble emits BUY or SELL the first sub-strategy
\* voted that direction, and with an ATR > 0 the emitted stop is on the
\* losing side and the emitted target on the winning side of the entry
\* price.
C30_EnsembleNeedsFirst ==
  Emitted =>
    LET combined == signalCall.combined
    IN  /\ signalCall.signals[1].signal = combined.signal
        /\ PositiveAtr =>
             IF combined.signal = "BUY"
             THEN NumLt(combined.stopLoss, combined.entryPrice) /\ NumLt(combined.entryPrice, combined.takeProfit)
             ELSE NumLt(combined.takeProfit, combined.entryPrice) /\ NumLt(combined.entryPrice, combined.stopLoss)

====
